---- MODULE Spec2Model ----
(***************************************************************************)
(* The key-item subsystem of libregf (libregf_key_item.c): loading of a    *)
(* named key with its class name, security descriptor and values list,     *)
(* and the recursive walk of the sub keys index (lf, lh, li, ri cells)     *)
(* that appends the sub nodes of a key tree node.                          *)
(*                                                                         *)
(* Cells are byte sequences (1-based); the multi-byte integers are decoded *)
(* little-endian as byte_stream_copy_to_uint*_little_endian does.  A C     *)
(* pointer that is NULL or points to one object is a sequence of length 0  *)
(* or 1.                                                                   *)
(*                                                                         *)
(* The integers of TLC are 32 bits wide and signed, so a 32-bit unsigned   *)
(* value v of the program is held as v when v < 2^31 and as v - 2^32       *)
(* otherwise (0xffffffff is -1); uint32_less compares two such values as   *)
(* the unsigned values they stand for.                                     *)
(***************************************************************************)
EXTENDS Integers, Sequences, FiniteSets, TLC

\* ------------------------------------------------------------------------
\* Bounds of the model
\* ------------------------------------------------------------------------

\* the largest number of nodes the key tree may hold
MaxNodes == 4

\* the longest values list cell written into a hive (in elements)
MaxListLen == 2

\* the deepest nesting of read_sub_keys_list calls that is followed
MaxDepth == 4

\* the largest number of calls on the Python API that fail in one call of
\* pyregf_value_types_init_type
MaxFailingCalls == 2

\* ------------------------------------------------------------------------
\* Program constants
\* ------------------------------------------------------------------------

\* 0xffffffffUL, the offset that means "absent"
ABSENT == -1

\* sizeof( regf_sub_key_list_t ): signature[ 2 ] and number_of_elements[ 2 ]
SubKeyListHeaderSize == 4

\* LIBREGF_KEY_ITEM_FLAG_IS_CORRUPTED, as a member of the set item_flags
IS_CORRUPTED == "IS_CORRUPTED"

\* ------------------------------------------------------------------------
\* Byte streams
\* ------------------------------------------------------------------------

byte_stream_copy_to_uint16_little_endian(data, pos) ==
  data[pos] + 256 * data[pos + 1]

byte_stream_copy_to_uint32_little_endian(data, pos) ==
  data[pos] + 256 * data[pos + 1] + 65536 * data[pos + 2]
    + 16777216 * (IF data[pos + 3] >= 128 THEN data[pos + 3] - 256
                  ELSE data[pos + 3])

\* a < b for two 32-bit unsigned values
uint32_less(a, b) ==
  IF (a < 0) = (b < 0) THEN a < b ELSE b < 0

\* size < number * 4, the product computed in 32 bits, for a size below 2^31
less_than_uint32_times_4(size, number) ==
  LET low == number % 1073741824
  IN  IF low >= 536870912 THEN TRUE ELSE size < low * 4

\* ------------------------------------------------------------------------
\* The hive bins list (the cell store)
\*   h.known : the offsets that lie in a hive bin
\*   h.cells : the cells that can be retrieved, by offset; a cell has its
\*             payload (data) and what the named key and the security key
\*             decoders make of that payload (nk, sk: empty when the decoder
\*             rejects it)
\*   h.evicts: the store keeps one cell at a time: every cell it retrieves
\*             overwrites the cell it returned before, and with it what a
\*             borrow of that cell reads
\* ------------------------------------------------------------------------

\* one call on the store, as it is logged: the function, the offset asked
\* for and the function of libregf_key_item.c that made the call
StoreCall(fn, offset, by) == [fn |-> fn, offset |-> offset, by |-> by]

\* returns 1 with the cell, or -1
libregf_hive_bins_list_get_cell_at_offset(h, offset) ==
  IF offset \in DOMAIN h.cells
  THEN [result |-> 1, cell |-> <<h.cells[offset]>>]
  ELSE [result |-> -1, cell |-> <<>>]

\* returns 1 if the offset lies in a hive bin, 0 if not
libregf_hive_bins_list_get_index_at_offset(h, offset) ==
  IF offset \in h.known THEN 1 ELSE 0

\* a borrow of the cell at offset: calls is the log of the calls on the
\* store up to and with the call that returned it
hive_bin_cell_borrow(offset, calls) == [offset |-> offset, at |-> Len(calls)]

\* the bytes that are read through a borrow when the log of the calls on
\* the store has grown to calls: those of the cell, overwritten by those
\* of the cell retrieved last if the store evicts
hive_bin_cell_read(h, hive_bin_cell, calls) ==
  LET later == {i \in hive_bin_cell.at + 1 .. Len(calls) :
                  /\ calls[i].fn = "get_cell_at_offset"
                  /\ calls[i].offset \in DOMAIN h.cells}
      own == h.cells[hive_bin_cell.offset].data
  IN  IF h.evicts /\ later # {}
      THEN LET last == CHOOSE i \in later : \A j \in later : j <= i
               other == h.cells[calls[last].offset].data
           IN  [i \in 1 .. Len(own) |->
                  IF i <= Len(other) THEN other[i] ELSE own[i]]
      ELSE own

\* the named key decoder: fails on a cell that is no named key and on a
\* name hash that does not match (a hash of 0 is not compared)
libregf_named_key_read_data(cell, named_key_hash) ==
  IF cell.nk = <<>>
  THEN [result |-> -1, named_key |-> <<>>]
  ELSE IF named_key_hash # 0 /\ named_key_hash # cell.nk[1].name_hash
  THEN [result |-> -1, named_key |-> <<>>]
  ELSE [result |-> 1, named_key |-> cell.nk]

\* the security key decoder
libregf_security_key_read_data(cell) ==
  IF cell.sk = <<>>
  THEN [result |-> -1, security_descriptor |-> <<>>]
  ELSE [result |-> 1, security_descriptor |-> cell.sk]

\* ------------------------------------------------------------------------
\* The key item
\* ------------------------------------------------------------------------

\* the key item after libregf_key_item_initialize: all members cleared
libregf_key_item_initialize ==
  [named_key |-> <<>>,
   class_name |-> <<>>,
   class_name_size |-> 0,
   security_descriptor |-> <<>>,
   security_descriptor_size |-> 0,
   values_list |-> <<>>,
   values_cache |-> <<>>,
   item_flags |-> {}]

\* the outcome of a function that works on a key item
Outcome(result, key_item, calls) ==
  [result |-> result, key_item |-> key_item, calls |-> calls]

\* as libregf_key_item_read_class_name_data, but a class name that fills
\* the cell is out of bounds
read_class_name_data_off_by_one(key_item, data, class_name_size) ==
  IF key_item.class_name # <<>>
  THEN [result |-> -1, key_item |-> key_item]
  ELSE IF class_name_size = 0 \/ class_name_size >= Len(data)
  THEN [result |-> -1,
        key_item |-> [key_item EXCEPT !.class_name = <<>>,
                                      !.class_name_size = 0]]
  ELSE [result |-> 1,
        key_item |-> [key_item EXCEPT
                        !.class_name = <<SubSeq(data, 1, class_name_size)>>,
                        !.class_name_size = class_name_size]]

\* as libregf_key_item_read_class_name_data, but the padding is copied too
read_class_name_data_with_padding(key_item, data, class_name_size) ==
  IF key_item.class_name # <<>>
  THEN [result |-> -1, key_item |-> key_item]
  ELSE IF class_name_size = 0 \/ class_name_size > Len(data)
  THEN [result |-> -1,
        key_item |-> [key_item EXCEPT !.class_name = <<>>,
                                      !.class_name_size = 0]]
  ELSE [result |-> 1,
        key_item |-> [key_item EXCEPT !.class_name = <<data>>,
                                      !.class_name_size = class_name_size]]

libregf_key_item_read_class_name_data(key_item, data, class_name_size) ==
  IF key_item.class_name # <<>>
  THEN [result |-> -1, key_item |-> key_item]
  ELSE IF class_name_size = 0 \/ class_name_size > Len(data)
  THEN \* on_error
       [result |-> -1,
        key_item |-> [key_item EXCEPT !.class_name = <<>>,
                                      !.class_name_size = 0]]
  ELSE [result |-> 1,
        key_item |-> [key_item EXCEPT
                        !.class_name = <<SubSeq(data, 1, class_name_size)>>,
                        !.class_name_size = class_name_size]]

libregf_key_item_read_class_name(h, key_item, class_name_offset, class_name_size) ==
  IF key_item.class_name # <<>>
  THEN Outcome(-1, key_item, <<>>)
  ELSE IF class_name_offset = ABSENT
  THEN Outcome(1, key_item, <<>>)
  ELSE IF class_name_offset = 0 /\ class_name_size = 0
  THEN Outcome(1, key_item, <<>>)
  ELSE IF class_name_offset = 0
  THEN Outcome(-1, key_item, <<>>)
  ELSE
    LET calls == <<StoreCall("get_cell_at_offset", class_name_offset,
                             "read_class_name")>>
        got == libregf_hive_bins_list_get_cell_at_offset(h, class_name_offset)
    IN  IF got.result # 1
        THEN Outcome(-1, key_item, calls)
        ELSE LET r == libregf_key_item_read_class_name_data(
                        key_item, got.cell[1].data, class_name_size)
             IN  Outcome(r.result, r.key_item, calls)

\* as libregf_key_item_read_security_key, but a security key that cannot
\* be retrieved or read marks the key item corrupted and is passed over
read_security_key_soft(h, key_item, security_key_offset) ==
  LET corrupted == [key_item EXCEPT !.item_flags = @ \cup {IS_CORRUPTED}]
  IN
  IF key_item.security_descriptor # <<>>
  THEN Outcome(-1, key_item, <<>>)
  ELSE IF security_key_offset = 0 \/ security_key_offset = ABSENT
  THEN Outcome(1, corrupted, <<>>)
  ELSE
    LET calls == <<StoreCall("get_cell_at_offset", security_key_offset,
                             "read_security_key")>>
        got == libregf_hive_bins_list_get_cell_at_offset(h, security_key_offset)
    IN  IF got.result # 1
        THEN Outcome(1, corrupted, calls)
        ELSE LET security_key == libregf_security_key_read_data(got.cell[1])
             IN  IF security_key.result # 1
                 THEN Outcome(1, corrupted, calls)
                 ELSE Outcome(1,
                        [key_item EXCEPT
                           !.security_descriptor =
                              security_key.security_descriptor,
                           !.security_descriptor_size =
                              Len(security_key.security_descriptor[1])],
                        calls)

libregf_key_item_read_security_key(h, key_item, security_key_offset) ==
  IF key_item.security_descriptor # <<>>
  THEN Outcome(-1, key_item, <<>>)
  ELSE IF security_key_offset = 0 \/ security_key_offset = ABSENT
  THEN Outcome(-1, key_item, <<>>)
  ELSE
    LET calls == <<StoreCall("get_cell_at_offset", security_key_offset,
                             "read_security_key")>>
        got == libregf_hive_bins_list_get_cell_at_offset(h, security_key_offset)
    IN  IF got.result # 1
        THEN Outcome(-1, key_item, calls)
        ELSE LET security_key == libregf_security_key_read_data(got.cell[1])
             IN  IF security_key.result # 1
                 THEN Outcome(-1, key_item, calls)
                 ELSE \* the descriptor moves from the security key
                      \* into the key item
                      Outcome(1,
                        [key_item EXCEPT
                           !.security_descriptor =
                              security_key.security_descriptor,
                           !.security_descriptor_size =
                              Len(security_key.security_descriptor[1])],
                        calls)

\* as read_values_list_element, but an element that lies in no hive bin is
\* passed over without a mark on the key item
read_values_list_element_unmarked(key_item, values_list_element_offset, result) ==
  IF result = 0
  THEN [result |-> 1, key_item |-> key_item]
  ELSE IF key_item.values_list = <<>>
  THEN [result |-> -1, key_item |-> key_item]
  ELSE [result |-> 1,
        key_item |-> [key_item EXCEPT !.values_list =
                        <<Append(@[1], values_list_element_offset)>>]]

\* as read_values_list_element, but an element that lies in no hive bin is
\* marked and appended all the same
read_values_list_element_kept(key_item, values_list_element_offset, result) ==
  IF key_item.values_list = <<>>
  THEN [result |-> -1, key_item |-> key_item]
  ELSE [result |-> 1,
        key_item |-> [key_item EXCEPT
                        !.item_flags = IF result = 0
                                       THEN @ \cup {IS_CORRUPTED} ELSE @,
                        !.values_list =
                          <<Append(@[1], values_list_element_offset)>>]]

\* what the loop does with one element offset, given the result of
\* libregf_hive_bins_list_get_index_at_offset for it (lines 1102-1124)
read_values_list_element(key_item, values_list_element_offset, result) ==
  IF result = 0
  THEN [result |-> 1,
        key_item |-> [key_item EXCEPT !.item_flags = @ \cup {IS_CORRUPTED}]]
  ELSE IF key_item.values_list = <<>>
  THEN \* libfdata_list_append_element without a list
       [result |-> -1, key_item |-> key_item]
  ELSE [result |-> 1,
        key_item |-> [key_item EXCEPT !.values_list =
                        <<Append(@[1], values_list_element_offset)>>]]

\* the outcome of libregf_key_item_read_values_list; borrow_reads are the
\* reads it made of the bytes of the borrowed cell
ValuesListOutcome(result, key_item, calls, out_of_bounds, borrow_reads) ==
  [result |-> result, key_item |-> key_item, calls |-> calls,
   out_of_bounds |-> out_of_bounds, borrow_reads |-> borrow_reads]

\* one read of the bytes of a borrowed cell: the borrow, the position read
\* and how many calls on the store had been made by then
BorrowRead(hive_bin_cell, pos, calls) ==
  [hive_bin_cell |-> hive_bin_cell, pos |-> pos, at |-> Len(calls)]

\* the bytes the loop reads an element offset from: hive_bin_cell_data
\* points into the borrowed cell (lines 1036, 1068-1070)
values_list_data(h, hive_bin_cell, pos, calls, borrow_reads) ==
  [data |-> hive_bin_cell_read(h, hive_bin_cell, calls),
   borrow_reads |-> Append(borrow_reads,
                           BorrowRead(hive_bin_cell, pos, calls))]

\* the loop over the elements of the values list cell (lines 1064-1125);
\* hive_bin_cell is the borrowed cell, pos the read position in its payload
\* and size what remains of hive_bin_cell_size.  Reading past the end of
\* the payload ends the loop with out_of_bounds set.
RECURSIVE read_values_list_elements(_, _, _, _, _, _, _, _, _)
read_values_list_elements(h, key_item, hive_bin_cell, pos, size, iterator, number_of_values_list_elements, calls, borrow_reads) ==
  IF ~uint32_less(iterator, number_of_values_list_elements)
  THEN ValuesListOutcome(1, key_item, calls, FALSE, borrow_reads)
  ELSE IF pos + 3 > Len(h.cells[hive_bin_cell.offset].data) \/ size < 4
  THEN ValuesListOutcome(-1, key_item, calls, TRUE, borrow_reads)
  ELSE
    LET read == values_list_data(h, hive_bin_cell, pos, calls, borrow_reads)
        values_list_element_offset ==
          byte_stream_copy_to_uint32_little_endian(read.data, pos)
        result == libregf_hive_bins_list_get_index_at_offset(
                    h, values_list_element_offset)
        calls1 == Append(calls, StoreCall("get_index_at_offset",
                    values_list_element_offset, "read_values_list"))
        element == read_values_list_element(key_item,
                     values_list_element_offset, result)
    IN  IF element.result # 1
        THEN ValuesListOutcome(-1, element.key_item, calls1, FALSE,
                               read.borrow_reads)
        ELSE read_values_list_elements(h, element.key_item,
               hive_bin_cell, pos + 4, size - 4, iterator + 1,
               number_of_values_list_elements, calls1, read.borrow_reads)

\* as libregf_key_item_read_values_list, but the cell is retrieved before
\* the number of elements is looked at
read_values_list_retrieves_first(h, key_item, values_list_offset, number_of_values_list_elements) ==
  IF values_list_offset = 0 \/ values_list_offset = ABSENT
  THEN ValuesListOutcome(-1, key_item, <<>>, FALSE, <<>>)
  ELSE
    LET calls == <<StoreCall("get_cell_at_offset", values_list_offset,
                             "read_values_list")>>
        got == libregf_hive_bins_list_get_cell_at_offset(h, values_list_offset)
    IN  IF got.result # 1
        THEN ValuesListOutcome(-1, key_item, calls, FALSE, <<>>)
        ELSE IF less_than_uint32_times_4(Len(got.cell[1].data),
                                         number_of_values_list_elements)
        THEN ValuesListOutcome(-1, key_item, calls, FALSE, <<>>)
        ELSE read_values_list_elements(h, key_item,
               hive_bin_cell_borrow(values_list_offset, calls),
               1, Len(got.cell[1].data), 0,
               number_of_values_list_elements, calls, <<>>)

libregf_key_item_read_values_list(h, key_item, values_list_offset, number_of_values_list_elements) ==
  IF number_of_values_list_elements = 0
  THEN ValuesListOutcome(1, key_item, <<>>, FALSE, <<>>)
  ELSE IF values_list_offset = 0 \/ values_list_offset = ABSENT
  THEN ValuesListOutcome(-1, key_item, <<>>, FALSE, <<>>)
  ELSE
    LET calls == <<StoreCall("get_cell_at_offset", values_list_offset,
                             "read_values_list")>>
        got == libregf_hive_bins_list_get_cell_at_offset(h, values_list_offset)
    IN  IF got.result # 1
        THEN ValuesListOutcome(-1, key_item, calls, FALSE, <<>>)
        ELSE
          LET hive_bin_cell == hive_bin_cell_borrow(values_list_offset,
                                                    calls)
              hive_bin_cell_size == Len(got.cell[1].data)
          IN  IF less_than_uint32_times_4(hive_bin_cell_size,
                                          number_of_values_list_elements)
              THEN ValuesListOutcome(-1, key_item, calls, FALSE, <<>>)
              ELSE read_values_list_elements(h, key_item, hive_bin_cell,
                     1, hive_bin_cell_size, 0,
                     number_of_values_list_elements, calls, <<>>)

\* ------------------------------------------------------------------------
\* The key tree node (libfdata tree node), as far as the key item uses it
\*   offset, size : the node data range; the size holds the name hash
\*   value        : the cached key item
\*   range        : the sub nodes data range (its offset), when set
\*   sub_nodes_read, parent : the sub nodes of a node are the nodes that
\*                  name it as parent, in the order they were appended
\* ------------------------------------------------------------------------

libfdata_tree_node_sub_nodes_data_range_is_set(node) ==
  IF node.range # <<>> THEN 1 ELSE 0

libfdata_tree_node_set_sub_nodes_data_range(node, offset) ==
  [node EXCEPT !.range = <<offset>>]

libfdata_tree_node_set_node_value(node, key_item) ==
  [node EXCEPT !.value = <<key_item>>]

\* what on_error of libregf_key_item_read_named_key releases
read_named_key_on_error(key_item) ==
  [key_item EXCEPT !.values_cache = <<>>,
                   !.values_list = <<>>,
                   !.named_key = <<>>]

\* the outcome of libregf_key_item_read_named_key: the tree node is part of
\* it, and so is the name hash that was handed to the decoder (if any)
NamedKeyOutcome(result, key_item, node, calls, decoded_with, oob) ==
  [result |-> result, key_item |-> key_item, node |-> node, calls |-> calls,
   decoded_with |-> decoded_with, out_of_bounds |-> oob]

\* as read_named_key_values, but the values list is read also if its
\* offset lies in no hive bin
read_named_key_values_unprobed(h, key_item0, node, calls0, decoded_with) ==
  LET named_key == key_item0.named_key[1]
      calls == Append(calls0, StoreCall("get_index_at_offset",
                 named_key.values_list_offset, "read_named_key"))
      r == libregf_key_item_read_values_list(h,
             [key_item0 EXCEPT
                !.values_list = << <<>> >>,
                !.values_cache = << {} >>,
                !.item_flags =
                   IF libregf_hive_bins_list_get_index_at_offset(
                        h, named_key.values_list_offset) = 0
                   THEN @ \cup {IS_CORRUPTED} ELSE @],
             named_key.values_list_offset, named_key.number_of_values)
  IN  IF r.result # 1
      THEN NamedKeyOutcome(-1, read_named_key_on_error(r.key_item),
             node, calls \o r.calls, decoded_with, r.out_of_bounds)
      ELSE NamedKeyOutcome(1, r.key_item, node, calls \o r.calls,
             decoded_with, FALSE)

\* lines 442-520: the values list and its cache are created, then the
\* values list is read if its offset lies in a hive bin
read_named_key_values(h, key_item0, node, calls0, decoded_with) ==
  LET named_key == key_item0.named_key[1]
      key_item == [key_item0 EXCEPT !.values_list = << <<>> >>,
                                    !.values_cache = << {} >>]
      result == libregf_hive_bins_list_get_index_at_offset(
                  h, named_key.values_list_offset)
      calls == Append(calls0, StoreCall("get_index_at_offset",
                 named_key.values_list_offset, "read_named_key"))
  IN  IF result = 0
      THEN NamedKeyOutcome(1,
             [key_item EXCEPT !.item_flags = @ \cup {IS_CORRUPTED}],
             node, calls, decoded_with, FALSE)
      ELSE
        LET r == libregf_key_item_read_values_list(h, key_item,
                   named_key.values_list_offset, named_key.number_of_values)
        IN  IF r.result # 1
            THEN NamedKeyOutcome(-1, read_named_key_on_error(r.key_item),
                   node, calls \o r.calls, decoded_with, r.out_of_bounds)
            ELSE NamedKeyOutcome(1, r.key_item, node, calls \o r.calls,
                   decoded_with, FALSE)

\* as read_named_key_sub_keys, but the sub keys list offset is not looked
\* up in the hive bins: the sub nodes data range is set whatever it is
read_named_key_sub_keys_unchecked(h, key_item, node, calls, decoded_with) ==
  IF uint32_less(0, key_item.named_key[1].number_of_sub_keys)
     /\ libfdata_tree_node_sub_nodes_data_range_is_set(node) = 0
  THEN read_named_key_values(h, key_item,
         libfdata_tree_node_set_sub_nodes_data_range(
           node, key_item.named_key[1].sub_keys_list_offset),
         Append(calls, StoreCall("get_index_at_offset",
           key_item.named_key[1].sub_keys_list_offset, "read_named_key")),
         decoded_with)
  ELSE read_named_key_values(h, key_item, node, calls, decoded_with)

\* as read_named_key_sub_keys, but a tree node that has its sub nodes data
\* range already makes the key item corrupted
read_named_key_sub_keys_once(h, key_item, node, calls, decoded_with) ==
  LET named_key == key_item.named_key[1]
      corrupted == [key_item EXCEPT !.item_flags = @ \cup {IS_CORRUPTED}]
      calls1 == Append(calls, StoreCall("get_index_at_offset",
                  named_key.sub_keys_list_offset, "read_named_key"))
  IN  IF ~uint32_less(0, named_key.number_of_sub_keys)
      THEN read_named_key_values(h, key_item, node, calls, decoded_with)
      ELSE IF libfdata_tree_node_sub_nodes_data_range_is_set(node) # 0
      THEN read_named_key_values(h, corrupted, node, calls, decoded_with)
      ELSE IF libregf_hive_bins_list_get_index_at_offset(
                h, named_key.sub_keys_list_offset) = 0
      THEN read_named_key_values(h, corrupted, node, calls1, decoded_with)
      ELSE read_named_key_values(h, key_item,
             libfdata_tree_node_set_sub_nodes_data_range(
               node, named_key.sub_keys_list_offset),
             calls1, decoded_with)

\* as read_named_key_sub_keys, but the sub keys list offset is looked up
\* and the range set on every load, also on a tree node that has its sub
\* nodes data range
read_named_key_sub_keys_again(h, key_item, node, calls, decoded_with) ==
  LET named_key == key_item.named_key[1]
      calls1 == Append(calls, StoreCall("get_index_at_offset",
                  named_key.sub_keys_list_offset, "read_named_key"))
  IN  IF ~uint32_less(0, named_key.number_of_sub_keys)
      THEN read_named_key_values(h, key_item, node, calls, decoded_with)
      ELSE IF libregf_hive_bins_list_get_index_at_offset(
                h, named_key.sub_keys_list_offset) = 0
      THEN read_named_key_values(h,
             [key_item EXCEPT !.item_flags = @ \cup {IS_CORRUPTED}],
             node, calls1, decoded_with)
      ELSE read_named_key_values(h, key_item,
             libfdata_tree_node_set_sub_nodes_data_range(
               node, named_key.sub_keys_list_offset),
             calls1, decoded_with)

\* as read_named_key_sub_keys, but the sub keys list cell is retrieved as
\* soon as the sub nodes data range is set
read_named_key_sub_keys_eager(h, key_item, node, calls, decoded_with) ==
  LET named_key == key_item.named_key[1]
      corrupted == [key_item EXCEPT !.item_flags = @ \cup {IS_CORRUPTED}]
      calls1 == Append(calls, StoreCall("get_index_at_offset",
                  named_key.sub_keys_list_offset, "read_named_key"))
  IN  IF ~uint32_less(0, named_key.number_of_sub_keys)
         \/ libfdata_tree_node_sub_nodes_data_range_is_set(node) # 0
      THEN read_named_key_values(h, key_item, node, calls, decoded_with)
      ELSE IF libregf_hive_bins_list_get_index_at_offset(
                h, named_key.sub_keys_list_offset) = 0
      THEN read_named_key_values(h, corrupted, node, calls1, decoded_with)
      ELSE read_named_key_values(h, key_item,
             libfdata_tree_node_set_sub_nodes_data_range(
               node, named_key.sub_keys_list_offset),
             Append(calls1, StoreCall("get_cell_at_offset",
               named_key.sub_keys_list_offset, "read_sub_keys_list")),
             decoded_with)

\* lines 379-440: the sub nodes data range of the tree node
read_named_key_sub_keys(h, key_item, node, calls, decoded_with) ==
  LET named_key == key_item.named_key[1]
  IN  IF uint32_less(0, named_key.number_of_sub_keys)
         /\ libfdata_tree_node_sub_nodes_data_range_is_set(node) = 0
      THEN
        LET result == libregf_hive_bins_list_get_index_at_offset(
                        h, named_key.sub_keys_list_offset)
            calls1 == Append(calls, StoreCall("get_index_at_offset",
                        named_key.sub_keys_list_offset, "read_named_key"))
        IN  IF result = 0
            THEN read_named_key_values(h,
                   [key_item EXCEPT !.item_flags = @ \cup {IS_CORRUPTED}],
                   node, calls1, decoded_with)
            ELSE read_named_key_values(h, key_item,
                   libfdata_tree_node_set_sub_nodes_data_range(
                     node, named_key.sub_keys_list_offset),
                   calls1, decoded_with)
      ELSE read_named_key_values(h, key_item, node, calls, decoded_with)

\* as read_named_key_offset_is_invalid, but 0xffffffff is let through
read_named_key_offset_is_zero(named_key_offset) ==
  named_key_offset = 0

\* lines 267-268: the named key offset is 0, or 0xffffffff or above
read_named_key_offset_is_invalid(named_key_offset) ==
  named_key_offset = 0 \/ ~uint32_less(named_key_offset, ABSENT)

\* as read_named_key_has_security_key, but a security key offset of 0 is
\* taken for no security key as well
read_named_key_has_security_key_above_zero(security_key_offset) ==
  security_key_offset # ABSENT /\ security_key_offset # 0

\* line 358: the named key has a security key
read_named_key_has_security_key(security_key_offset) ==
  security_key_offset # ABSENT

libregf_key_item_read_named_key(h, key_item, node, named_key_offset, named_key_hash) ==
  IF key_item.named_key # <<>>
  THEN NamedKeyOutcome(-1, key_item, node, <<>>, <<>>, FALSE)
  ELSE IF read_named_key_offset_is_invalid(named_key_offset)
  THEN NamedKeyOutcome(-1, key_item, node, <<>>, <<>>, FALSE)
  ELSE
    LET calls == <<StoreCall("get_cell_at_offset", named_key_offset,
                             "read_named_key")>>
        got == libregf_hive_bins_list_get_cell_at_offset(h, named_key_offset)
    IN  IF got.result # 1
        THEN NamedKeyOutcome(-1, read_named_key_on_error(key_item), node,
               calls, <<>>, FALSE)
        ELSE
          LET decoded == libregf_named_key_read_data(got.cell[1],
                                                     named_key_hash)
              decoded_with == <<named_key_hash>>
          IN  IF decoded.result # 1
              THEN NamedKeyOutcome(-1, read_named_key_on_error(key_item),
                     node, calls, decoded_with, FALSE)
              ELSE
                LET key_item1 == [key_item EXCEPT
                                    !.named_key = decoded.named_key]
                    named_key == decoded.named_key[1]
                    cn == libregf_key_item_read_class_name(h, key_item1,
                            named_key.class_name_offset,
                            named_key.class_name_size)
                    calls1 == calls \o cn.calls
                IN  IF cn.result # 1
                    THEN NamedKeyOutcome(-1,
                           read_named_key_on_error(cn.key_item), node,
                           calls1, decoded_with, FALSE)
                    ELSE IF read_named_key_has_security_key(
                              named_key.security_key_offset)
                    THEN
                      LET sk == libregf_key_item_read_security_key(h,
                                  cn.key_item, named_key.security_key_offset)
                          calls2 == calls1 \o sk.calls
                      IN  IF sk.result # 1
                          THEN NamedKeyOutcome(-1,
                                 read_named_key_on_error(sk.key_item), node,
                                 calls2, decoded_with, FALSE)
                          ELSE read_named_key_sub_keys(h, sk.key_item, node,
                                 calls2, decoded_with)
                    ELSE read_named_key_sub_keys(h, cn.key_item, node,
                           calls1, decoded_with)

\* lines 1197-1231: what the node payload loader makes of the outcome r of
\* libregf_key_item_read_named_key; key_item is the key item as it was
\* left, freed is whether on_error freed it
read_node_data_outcome(r) ==
  IF r.result # 1
  THEN [result |-> -1, node |-> r.node, key_item |-> r.key_item,
        freed |-> TRUE, calls |-> r.calls,
        decoded_with |-> r.decoded_with,
        out_of_bounds |-> r.out_of_bounds]
  ELSE [result |-> 1,
        node |-> libfdata_tree_node_set_node_value(r.node, r.key_item),
        key_item |-> r.key_item, freed |-> FALSE,
        calls |-> r.calls, decoded_with |-> r.decoded_with,
        out_of_bounds |-> FALSE]

\* the node payload loader: a new key item is read from the named key at
\* node_data_offset.  node_data_size is the size of the node data range,
\* which holds a 32-bit name hash and so never exceeds UINT32_MAX.
libregf_key_item_read_node_data(h, node, node_data_offset, node_data_size) ==
  read_node_data_outcome(
    libregf_key_item_read_named_key(h, libregf_key_item_initialize, node,
                                    node_data_offset, node_data_size))

libregf_key_item_get_number_of_values(key_item) ==
  IF key_item.values_list = <<>>
  THEN [result |-> -1, number_of_values |-> 0]
  ELSE [result |-> 1, number_of_values |-> Len(key_item.values_list[1])]

\* ------------------------------------------------------------------------
\* The sub keys index
\* ------------------------------------------------------------------------

\* the result of a walk that was not followed to its end (see MaxDepth)
NOT_FOLLOWED == (-1) - 1

libfdata_tree_node_append_sub_node(sub_nodes, offset, size, flags) ==
  Append(sub_nodes, [offset |-> offset, size |-> size, flags |-> flags])

\* what a walk has done so far besides its calls on the store: how many
\* local copies of a cell payload it has allocated and how many of them it
\* has released, and the deepest nesting of read_sub_keys_list it came to
NoTrace == [allocated |-> 0, released |-> 0, deepest |-> 0]

\* the outcome of libregf_key_item_read_sub_keys_list: sub_nodes are the
\* sub nodes of the tree node, the appended ones included
SubKeysOutcome(result, sub_nodes, calls, trace) ==
  [result |-> result, sub_nodes |-> sub_nodes, calls |-> calls,
   out_of_bounds |-> FALSE, trace |-> trace]

\* the walk has read an element past the end of its copy of the payload
SubKeysOutOfBounds(sub_nodes, calls, trace) ==
  [result |-> -1, sub_nodes |-> sub_nodes, calls |-> calls,
   out_of_bounds |-> TRUE, trace |-> trace]

\* as read_sub_keys_list_release, but the copy is released only at the end
\* of a loop that went through
read_sub_keys_list_release_at_end(r) ==
  IF r.result >= 0 THEN [r EXCEPT !.trace.released = @ + 1] ELSE r

\* lines 1581-1596: the local copy is released, after the loop and in
\* on_error; r is the outcome of what came after the copy was made.  A
\* walk that was not followed to its end has not come so far.
read_sub_keys_list_release(r) ==
  IF r.result = NOT_FOLLOWED THEN r
  ELSE [r EXCEPT !.trace.released = @ + 1]

\* as sub_keys_list_too_small, but every element is taken to be an offset
\* of 4 bytes
sub_keys_list_too_small_for_offsets(hive_bin_cell_size, number_of_sub_keys_list_elements, sub_keys_list_element_size) ==
  hive_bin_cell_size - SubKeyListHeaderSize
    < number_of_sub_keys_list_elements * 4

\* line 1436: what remains of the payload after the header is less than
\* the elements take; the product of a 16-bit and an 8-bit number is an
\* int
sub_keys_list_too_small(hive_bin_cell_size, number_of_sub_keys_list_elements, sub_keys_list_element_size) ==
  hive_bin_cell_size - SubKeyListHeaderSize
    < number_of_sub_keys_list_elements * sub_keys_list_element_size

\* as read_sub_keys_list_append, but the hash is left out
read_sub_keys_list_append_without_hash(sub_nodes, sub_keys_list_element_offset, element_hash) ==
  libfdata_tree_node_append_sub_node(sub_nodes,
    sub_keys_list_element_offset, 0, 0)

\* a leaf element becomes a sub node: its offset, and its hash as the size
\* (lines 1513-1520)
read_sub_keys_list_append(sub_nodes, sub_keys_list_element_offset, element_hash) ==
  libfdata_tree_node_append_sub_node(sub_nodes,
    sub_keys_list_element_offset, element_hash, 0)

\* as read_sub_keys_list_corruption, but every element overwrites what
\* the elements before it found
read_sub_keys_list_corruption_overwritten(result, corruption_detected) ==
  IF result = 0 THEN 1 ELSE 0

\* corruption_detected after an element, given the result of the probe or
\* of the walk of the element (lines 1556-1559)
read_sub_keys_list_corruption(result, corruption_detected) ==
  IF result = 0 THEN 1 ELSE corruption_detected

\* as sub_keys_list_data, but the elements are read from the borrowed
\* cell
sub_keys_list_data_borrowed(h, hive_bin_cell_data, hive_bin_cell, calls) ==
  hive_bin_cell_read(h, hive_bin_cell, calls)

\* the bytes the loop reads its elements from: the local copy of the cell
\* payload (lines 1433, 1451-1453)
sub_keys_list_data(h, hive_bin_cell_data, hive_bin_cell, calls) ==
  hive_bin_cell_data

\* as read_sub_keys_list_offset_is_invalid, but an offset of 0 is let
\* through
read_sub_keys_list_offset_is_absent(sub_keys_list_offset) ==
  sub_keys_list_offset = ABSENT

\* lines 1283-1284: the sub keys list offset is 0 or 0xffffffff
read_sub_keys_list_offset_is_invalid(sub_keys_list_offset) ==
  sub_keys_list_offset = 0 \/ sub_keys_list_offset = ABSENT

RECURSIVE libregf_key_item_read_sub_keys_list(_, _, _, _, _, _)
RECURSIVE read_sub_keys_list_elements(_, _, _, _, _, _, _, _, _, _, _, _, _)

\* the loop over the elements (lines 1447-1560) and what follows it; data
\* is the local copy of the cell payload, hive_bin_cell the borrowed cell
\* it was copied from and pos the position of sub_keys_list_data
read_sub_keys_list_elements(h, sub_nodes, calls, trace, data, hive_bin_cell, pos, sub_keys_list_element_size, at_leaf_level, iterator, number_of_sub_keys_list_elements, corruption_detected, depth) ==
  IF iterator >= number_of_sub_keys_list_elements
  THEN SubKeysOutcome(IF corruption_detected # 0 THEN 0 ELSE 1,
                      sub_nodes, calls, trace)
  ELSE IF pos + sub_keys_list_element_size - 1 > Len(data)
  THEN SubKeysOutOfBounds(sub_nodes, calls, trace)
  ELSE
    LET sub_keys_list_element_offset ==
          byte_stream_copy_to_uint32_little_endian(
            sub_keys_list_data(h, data, hive_bin_cell, calls), pos)
        element_hash ==
          IF sub_keys_list_element_size = 8
          THEN byte_stream_copy_to_uint32_little_endian(
                 sub_keys_list_data(h, data, hive_bin_cell, calls), pos + 4)
          ELSE 0
        next_pos == pos + sub_keys_list_element_size
        result == libregf_hive_bins_list_get_index_at_offset(
                    h, sub_keys_list_element_offset)
        calls1 == Append(calls, StoreCall("get_index_at_offset",
                    sub_keys_list_element_offset, "read_sub_keys_list"))
    IN  IF result # 0
        THEN
          IF at_leaf_level # 0
          THEN read_sub_keys_list_elements(h,
                 read_sub_keys_list_append(sub_nodes,
                   sub_keys_list_element_offset, element_hash),
                 calls1, trace, data, hive_bin_cell, next_pos,
                 sub_keys_list_element_size,
                 at_leaf_level, iterator + 1,
                 number_of_sub_keys_list_elements,
                 read_sub_keys_list_corruption(result, corruption_detected),
                 depth)
          ELSE
            LET r == libregf_key_item_read_sub_keys_list(h, sub_nodes,
                       calls1, trace, sub_keys_list_element_offset,
                       depth + 1)
            IN  IF r.result < 0
                THEN r
                ELSE read_sub_keys_list_elements(h, r.sub_nodes, r.calls,
                       r.trace, data, hive_bin_cell, next_pos,
                       sub_keys_list_element_size,
                       at_leaf_level, iterator + 1,
                       number_of_sub_keys_list_elements,
                       read_sub_keys_list_corruption(r.result,
                         corruption_detected),
                       depth)
        ELSE read_sub_keys_list_elements(h, sub_nodes, calls1, trace, data,
               hive_bin_cell, next_pos,
               sub_keys_list_element_size, at_leaf_level,
               iterator + 1, number_of_sub_keys_list_elements,
               read_sub_keys_list_corruption(result, corruption_detected),
               depth)

\* the signature of a sub keys list: <<element size, at leaf level>>, or
\* <<>> for a signature that is not supported (lines 1384-1413)
sub_keys_list_signature(data) ==
  IF data[1] = 114 /\ data[2] = 105            \* "ri"
  THEN <<[element_size |-> 4, at_leaf_level |-> 0]>>
  ELSE IF data[1] = 108 /\ data[2] = 105       \* "li"
  THEN <<[element_size |-> 4, at_leaf_level |-> 1]>>
  ELSE IF data[1] = 108 /\ (data[2] = 102 \/ data[2] = 104)  \* "lf", "lh"
  THEN <<[element_size |-> 8, at_leaf_level |-> 1]>>
  ELSE <<>>

\* lines 1360-1560: what read_sub_keys_list does with its local copy of
\* the cell payload
read_sub_keys_list_copy(h, sub_nodes, calls, trace, hive_bin_cell_data, hive_bin_cell, hive_bin_cell_size, depth) ==
  IF hive_bin_cell_size < SubKeyListHeaderSize
  THEN SubKeysOutcome(-1, sub_nodes, calls, trace)
  ELSE
    LET signature == sub_keys_list_signature(hive_bin_cell_data)
    IN  IF signature = <<>>
        THEN SubKeysOutcome(-1, sub_nodes, calls, trace)
        ELSE
          LET number_of_sub_keys_list_elements ==
                byte_stream_copy_to_uint16_little_endian(
                  hive_bin_cell_data, 3)
          IN  IF sub_keys_list_too_small(hive_bin_cell_size,
                   number_of_sub_keys_list_elements,
                   signature[1].element_size)
              THEN SubKeysOutcome(-1, sub_nodes, calls, trace)
              ELSE read_sub_keys_list_elements(h, sub_nodes,
                     calls, trace, hive_bin_cell_data, hive_bin_cell,
                     SubKeyListHeaderSize + 1,
                     signature[1].element_size,
                     signature[1].at_leaf_level, 0,
                     number_of_sub_keys_list_elements, 0, depth)

libregf_key_item_read_sub_keys_list(h, sub_nodes, calls0, trace0, sub_keys_list_offset, depth) ==
  IF depth > MaxDepth
  THEN SubKeysOutcome(NOT_FOLLOWED, sub_nodes, calls0, trace0)
  ELSE
    LET entered == [trace0 EXCEPT !.deepest = IF depth > @ THEN depth ELSE @]
    IN
    IF read_sub_keys_list_offset_is_invalid(sub_keys_list_offset)
    THEN SubKeysOutcome(-1, sub_nodes, calls0, entered)
    ELSE
      LET calls == Append(calls0, StoreCall("get_cell_at_offset",
                     sub_keys_list_offset, "read_sub_keys_list"))
          got == libregf_hive_bins_list_get_cell_at_offset(
                   h, sub_keys_list_offset)
      IN  IF got.result # 1
          THEN SubKeysOutcome(-1, sub_nodes, calls, entered)
          ELSE
            LET hive_bin_cell == hive_bin_cell_borrow(sub_keys_list_offset,
                                                      calls)
            IN  \* the local copy of the cell payload (lines 1326-1358)
                read_sub_keys_list_release(
                  read_sub_keys_list_copy(h, sub_nodes, calls,
                    [entered EXCEPT !.allocated = @ + 1],
                    hive_bin_cell_read(h, hive_bin_cell, calls),
                    hive_bin_cell, Len(got.cell[1].data), depth))

\* as libregf_key_item_read_sub_nodes, but the result of the walk is
\* returned as it is
read_sub_nodes_returns_walk(h, sub_nodes, sub_nodes_data_offset) ==
  LET r == libregf_key_item_read_sub_keys_list(h, sub_nodes, <<>>,
             NoTrace, sub_nodes_data_offset, 1)
  IN  [result |-> r.result, walk |-> r.result, sub_nodes |-> r.sub_nodes,
       calls |-> r.calls, out_of_bounds |-> r.out_of_bounds,
       trace |-> r.trace]

\* the sub nodes loader; walk is the result of the walk
libregf_key_item_read_sub_nodes(h, sub_nodes, sub_nodes_data_offset) ==
  LET r == libregf_key_item_read_sub_keys_list(h, sub_nodes, <<>>,
             NoTrace, sub_nodes_data_offset, 1)
  IN  [result |-> IF r.result = -1 THEN -1
                  ELSE IF r.result = NOT_FOLLOWED THEN NOT_FOLLOWED
                  ELSE 1,
       walk |-> r.result, sub_nodes |-> r.sub_nodes, calls |-> r.calls,
       out_of_bounds |-> r.out_of_bounds, trace |-> r.trace]

\* ------------------------------------------------------------------------
\* The hives the model is run on
\* ------------------------------------------------------------------------

uint16_little_endian(n) == <<n % 256, n \div 256>>

uint32_little_endian(n) ==
  <<n % 256, (n \div 256) % 256, (n \div 65536) % 256,
    (n \div 16777216) % 256>>

RECURSIVE uint32_stream(_)
uint32_stream(words) ==
  IF words = <<>> THEN <<>>
  ELSE uint32_little_endian(Head(words)) \o uint32_stream(Tail(words))

\* where the cells of a hive are; nocell lies in a hive bin but is no cell,
\* outside (0xdeadbeef) lies in no hive bin
At == [root |-> 32, class |-> 40, security |-> 48, nosecurity |-> 52,
       values |-> 56, index |-> 64, indexA |-> 72, indexB |-> 80,
       indexC |-> 88, keyA |-> 96, keyB |-> 104, value1 |-> 112,
       value2 |-> 120, nocell |-> 200, outside |-> -559038737]

HashOf == [keyA |-> 17, keyB |-> 34, wrong |-> 99]

RawCell(data) == [data |-> data, nk |-> <<>>, sk |-> <<>>]
NamedKeyCell(named_key) ==
  [data |-> <<110, 107>>, nk |-> <<named_key>>, sk |-> <<>>]
SecurityKeyCell(security_descriptor) ==
  [data |-> <<115, 107>>, nk |-> <<>>, sk |-> <<security_descriptor>>]

\* a sub keys list cell: signature, number of elements, the 32-bit words of
\* the elements and the padding
IndexCell(signature, number_of_elements, words, padding) ==
  RawCell(signature \o uint16_little_endian(number_of_elements)
            \o uint32_stream(words) \o padding)

Sig == [ri |-> <<114, 105>>, li |-> <<108, 105>>, lf |-> <<108, 102>>,
        lh |-> <<108, 104>>, xx |-> <<120, 120>>]

\* a key without class name, security key, values and sub keys
PlainKey ==
  [name |-> "ROOT", name_hash |-> 0,
   class_name_offset |-> ABSENT, class_name_size |-> 0,
   security_key_offset |-> ABSENT,
   values_list_offset |-> At.values, number_of_values |-> 0,
   sub_keys_list_offset |-> ABSENT, number_of_sub_keys |-> 0]

KeyA == [PlainKey EXCEPT !.name = "A", !.name_hash = HashOf.keyA,
                         !.security_key_offset = At.security,
                         !.number_of_values = 1]

KeyB == [PlainKey EXCEPT !.name = "B", !.name_hash = HashOf.keyB,
                         !.class_name_offset = At.class,
                         !.class_name_size = 6]

\* the class name cell: "AB" in UTF-16 little-endian and 2 bytes of padding
ClassNameData == <<65, 0, 66, 0, 7, 9>>

Hive(root, values, index, indexA, indexB) ==
  [known |-> 0 .. 255, evicts |-> FALSE,
   cells |-> (At.root :> NamedKeyCell(root))
          @@ (At.class :> RawCell(ClassNameData))
          @@ (At.security :> SecurityKeyCell(<<1, 2, 3>>))
          @@ (At.nosecurity :> RawCell(<<115, 107>>))
          @@ (At.values :> RawCell(values))
          @@ (At.index :> index)
          @@ (At.indexA :> indexA)
          @@ (At.indexB :> indexB)
          @@ (At.indexC :> IndexCell(Sig.lh, 1, <<At.keyB, HashOf.keyB>>,
                                     <<>>))
          @@ (At.keyA :> NamedKeyCell(KeyA))
          @@ (At.keyB :> NamedKeyCell(KeyB))
          @@ (At.value1 :> RawCell(<<118, 107>>))
          @@ (At.value2 :> RawCell(<<118, 107>>))]

\* values list cells: every list of at most MaxListLen element offsets,
\* without and with padding
ValuesLists ==
  LET lists == UNION {[1 .. k -> {At.value1, At.value2, At.outside}] :
                        k \in 0 .. MaxListLen}
  IN  {uint32_stream(l) : l \in lists}
        \cup {uint32_stream(l) \o <<0, 0>> : l \in lists}

DefaultValues == uint32_stream(<<At.value1>>)

\* sub keys list cells
LeafA ==
  {IndexCell(Sig.lh, 1, <<At.keyA, HashOf.keyA>>, <<>>),
   IndexCell(Sig.li, 1, <<At.outside>>, <<>>),
   IndexCell(Sig.xx, 1, <<At.keyA, HashOf.keyA>>, <<>>),
   IndexCell(Sig.ri, 1, <<At.indexC>>, <<>>),
   IndexCell(Sig.lf, 0, <<>>, <<>>)}

LeafB ==
  {IndexCell(Sig.li, 1, <<At.keyB>>, <<>>),
   IndexCell(Sig.lf, 2, <<At.outside, 1, At.keyB, HashOf.keyB>>, <<>>),
   IndexCell(Sig.xx, 0, <<>>, <<>>),
   RawCell(<<108, 102, 1>>),
   IndexCell(Sig.lh, 1, <<At.keyB, HashOf.keyB>>, <<0, 0, 0, 0>>)}

DefaultA == IndexCell(Sig.lh, 1, <<At.keyA, HashOf.keyA>>, <<>>)
DefaultB == IndexCell(Sig.li, 1, <<At.keyB>>, <<>>)

InteriorTops ==
  {IndexCell(Sig.ri, 2, <<At.indexA, At.indexB>>, <<>>),
   IndexCell(Sig.ri, 3, <<At.indexA, At.outside, At.indexB>>, <<>>),
   IndexCell(Sig.ri, 2, <<At.indexA, At.nocell>>, <<>>),
   IndexCell(Sig.ri, 2, <<0, At.indexB>>, <<>>)}

LeafTops ==
  {IndexCell(Sig.lf, 2, <<At.keyA, HashOf.keyA, At.keyB, HashOf.keyB>>,
             <<>>),
   IndexCell(Sig.lh, 3, <<At.keyA, HashOf.keyA, At.outside, 5,
                          At.keyB, HashOf.keyB>>, <<>>),
   IndexCell(Sig.li, 2, <<At.keyA, At.keyA>>, <<>>),
   IndexCell(Sig.lf, 0, <<>>, <<>>),
   IndexCell(Sig.lh, 1, <<At.keyA, HashOf.wrong>>, <<>>),
   IndexCell(Sig.li, 1, <<At.outside>>, <<>>),
   IndexCell(Sig.li, 2, <<At.nocell, At.keyB>>, <<>>),
   IndexCell(Sig.xx, 1, <<At.keyA>>, <<>>),
   RawCell(<<108, 105, 0>>),
   IndexCell(Sig.lf, 2, <<At.keyA, HashOf.keyA>>, <<>>),
   IndexCell(Sig.li, 2, <<At.keyA>>, <<0, 0, 0>>),
   IndexCell(Sig.lh, 8193, <<At.keyA, HashOf.keyA, At.keyB, HashOf.keyB>>,
             <<>>),
   IndexCell(Sig.li, 65535, <<At.keyA, At.keyB>>, <<>>),
   IndexCell(Sig.li, 2, <<0, At.keyB>>, <<>>)}

DefaultTop ==
  IndexCell(Sig.lf, 2, <<At.keyA, HashOf.keyA, At.keyB, HashOf.keyB>>, <<>>)

\* hives that differ in the class name of the root key
ClassNameHives ==
  {Hive([PlainKey EXCEPT !.class_name_offset = o, !.class_name_size = s],
        DefaultValues, DefaultTop, DefaultA, DefaultB) :
     o \in {ABSENT, 0, At.class, At.nocell, At.outside},
     s \in {0, 4, 6, 8}}

\* hives that differ in the security key of the root key
SecurityKeyHives ==
  {Hive([PlainKey EXCEPT !.security_key_offset = o, !.values_list_offset = v],
        DefaultValues, DefaultTop, DefaultA, DefaultB) :
     o \in {ABSENT, 0, At.security, At.nosecurity, At.nocell, At.outside},
     v \in {At.values, At.outside}}

\* hives that differ in the values list of the root key
ValuesListHives ==
  {Hive([PlainKey EXCEPT !.values_list_offset = o, !.number_of_values = n],
        DefaultValues, DefaultTop, DefaultA, DefaultB) :
     o \in {ABSENT, 0, At.nocell, At.outside},
     n \in (0 .. MaxListLen) \cup {1073741824}}
  \cup
  {Hive([PlainKey EXCEPT !.number_of_values = n],
        values, DefaultTop, DefaultA, DefaultB) :
     n \in 0 .. MaxListLen + 1, values \in ValuesLists}

\* hives that differ in the sub keys of the root key
SubKeysHives ==
  {Hive([PlainKey EXCEPT !.sub_keys_list_offset = o, !.number_of_sub_keys = n],
        DefaultValues, DefaultTop, DefaultA, DefaultB) :
     o \in {ABSENT, 0, At.index, At.nocell, At.outside}, n \in {0, 2}}
  \cup
  {Hive([PlainKey EXCEPT !.sub_keys_list_offset = At.index,
                         !.number_of_sub_keys = 2],
        DefaultValues, top, DefaultA, DefaultB) : top \in LeafTops}
  \cup
  {Hive([PlainKey EXCEPT !.sub_keys_list_offset = At.index,
                         !.number_of_sub_keys = 2],
        DefaultValues, top, a, b) :
     top \in InteriorTops, a \in LeafA, b \in LeafB}

\* hives in which the root key has several of these at once
MixedHives ==
  {Hive([PlainKey EXCEPT !.class_name_offset = c[1],
                         !.class_name_size = c[2],
                         !.security_key_offset = s,
                         !.values_list_offset = v[1],
                         !.number_of_values = v[2],
                         !.sub_keys_list_offset = k[1],
                         !.number_of_sub_keys = k[2]],
        v[3], k[3], DefaultA, DefaultB) :
     c \in {<<ABSENT, 0>>, <<At.class, 4>>},
     s \in {ABSENT, At.security, At.nosecurity},
     v \in {<<ABSENT, 0, DefaultValues>>,
            <<At.values, 2, uint32_stream(<<At.value1, At.value2>>)>>,
            <<At.values, 2, uint32_stream(<<At.outside, At.value2>>)>>,
            <<At.outside, 1, DefaultValues>>,
            <<At.nocell, 1, DefaultValues>>},
     k \in {<<ABSENT, 0, DefaultTop>>,
            <<At.index, 2, DefaultTop>>,
            <<At.index, 2,
              IndexCell(Sig.ri, 3, <<At.indexA, At.outside, At.indexB>>,
                        <<>>)>>,
            <<At.outside, 2, DefaultTop>>}}

\* the hives that differ in the sub keys, in a store that evicts
EvictingHives == {[h EXCEPT !.evicts = TRUE] : h \in SubKeysHives}

Hives ==
  ClassNameHives \cup SecurityKeyHives \cup ValuesListHives
    \cup SubKeysHives \cup MixedHives \cup EvictingHives

\* ------------------------------------------------------------------------
\* The value types of the Python module (pyregf_value_types.c)
\* ------------------------------------------------------------------------

\* enum LIBREGF_VALUE_TYPES of libregf/definitions.h
LIBREGF_VALUE_TYPE ==
  [UNDEFINED |-> 0,
   STRING |-> 1,
   EXPANDABLE_STRING |-> 2,
   BINARY_DATA |-> 3,
   INTEGER_32BIT_LITTLE_ENDIAN |-> 4,
   INTEGER_32BIT_BIG_ENDIAN |-> 5,
   SYMBOLIC_LINK |-> 6,
   MULTI_VALUE_STRING |-> 7,
   RESOURCE_LIST |-> 8,
   FULL_RESOURCE_DESCRIPTOR |-> 9,
   RESOURCE_REQUIREMENTS_LIST |-> 10,
   INTEGER_64BIT_LITTLE_ENDIAN |-> 11]

\* a dictionary is a function from its keys; PyDict_SetItemString binds
\* the key to the value, in place of what it was bound to
PyDict_New == <<>>

PyDict_SetItemString(dict, key, value) ==
  [k \in DOMAIN dict \cup {key} |-> IF k = key THEN value ELSE dict[k]]

\* the calls of PyDict_SetItemString in pyregf_value_types_init_type, in
\* their order: the key and the constant handed to PyInt_FromLong
\* (lines 147-242)
value_types_items ==
  <<[key |-> "UNDEFINED", value |-> LIBREGF_VALUE_TYPE.UNDEFINED],
    [key |-> "STRING", value |-> LIBREGF_VALUE_TYPE.STRING],
    [key |-> "EXPANDABLE_STRING",
     value |-> LIBREGF_VALUE_TYPE.EXPANDABLE_STRING],
    [key |-> "BINARY_DATA", value |-> LIBREGF_VALUE_TYPE.BINARY_DATA],
    [key |-> "INTEGER_32BIT_LITTLE_ENDIAN",
     value |-> LIBREGF_VALUE_TYPE.INTEGER_32BIT_LITTLE_ENDIAN],
    [key |-> "INTEGER_32BIT_BIG_ENDIAN",
     value |-> LIBREGF_VALUE_TYPE.INTEGER_32BIT_BIG_ENDIAN],
    [key |-> "SYMBOLIC_LINK", value |-> LIBREGF_VALUE_TYPE.SYMBOLIC_LINK],
    [key |-> "MULTI_VALUE_STRING",
     value |-> LIBREGF_VALUE_TYPE.MULTI_VALUE_STRING],
    [key |-> "RESOURCE_LIST", value |-> LIBREGF_VALUE_TYPE.RESOURCE_LIST],
    [key |-> "FULL_RESOURCE_DESCRIPTOR",
     value |-> LIBREGF_VALUE_TYPE.FULL_RESOURCE_DESCRIPTOR],
    [key |-> "RESOURCE_REQUIREMENTS_LIST",
     value |-> LIBREGF_VALUE_TYPE.RESOURCE_REQUIREMENTS_LIST],
    [key |-> "INTEGER_64BIT_LITTLE_ENDIAN",
     value |-> LIBREGF_VALUE_TYPE.INTEGER_32BIT_LITTLE_ENDIAN]>>

\* the outcome of pyregf_value_types_init_type: the type object as it is
\* left, and whether the dictionary was released with Py_DecRef
TypeOutcome(result, type_object, released) ==
  [result |-> result, type_object |-> type_object, released |-> released]

\* the calls of PyDict_SetItemString from the one at position on; failing
\* is the set of the calls that fail (lines 147-254)
RECURSIVE value_types_set_items(_, _, _)
value_types_set_items(tp_dict, position, failing) ==
  IF position > Len(value_types_items)
  THEN TypeOutcome(1, <<[tp_dict |-> <<tp_dict>>]>>, FALSE)
  ELSE IF position \in failing
  THEN \* on_error
       TypeOutcome(-1, <<[tp_dict |-> <<>>]>>, TRUE)
  ELSE value_types_set_items(
         PyDict_SetItemString(tp_dict, value_types_items[position].key,
                              value_types_items[position].value),
         position + 1, failing)

\* failing holds 0 if PyDict_New fails and the positions of the calls of
\* PyDict_SetItemString that fail
pyregf_value_types_init_type(type_object, failing) ==
  IF type_object = <<>>
  THEN TypeOutcome(-1, type_object, FALSE)
  ELSE IF 0 \in failing
  THEN TypeOutcome(-1, <<[tp_dict |-> <<>>]>>, FALSE)
  ELSE value_types_set_items(PyDict_New, 1, failing)

\* pyregf_value_types_type_object as it is defined: tp_dict is 0
pyregf_value_types_type_object == <<[tp_dict |-> <<>>]>>

\* ------------------------------------------------------------------------
\* The state
\* ------------------------------------------------------------------------

\* hive: the hive bins list; it does not change
\* nodes: the nodes of the key tree, the root first
\* lastOp: the call that led to this state, with what it returned
\* type_object: the type object of the value types of the Python module
VARIABLES hive, nodes, lastOp, type_object

vars == <<hive, nodes, lastOp, type_object>>

TreeNode(offset, size, parent) ==
  [offset |-> offset, size |-> size, parent |-> parent,
   value |-> <<>>, range |-> <<>>, sub_nodes_read |-> FALSE]

\* the sub nodes of node n, as the descriptors they were appended with
SubNodesOf(n) ==
  LET RECURSIVE from(_)
      from(i) ==
        IF i > Len(nodes) THEN <<>>
        ELSE IF nodes[i].parent = n
        THEN <<[offset |-> nodes[i].offset, size |-> nodes[i].size,
                flags |-> 0]>> \o from(i + 1)
        ELSE from(i + 1)
  IN  from(1)

NoOp ==
  [op |-> "none", node |-> 0, args |-> <<>>, before |-> <<>>,
   node_before |-> <<>>,
   result |-> 0, walk |-> 0, key_item |-> <<>>, freed |-> FALSE,
   added |-> <<>>, calls |-> <<>>, decoded_with |-> <<>>,
   out_of_bounds |-> FALSE, borrow_reads |-> <<>>, trace |-> NoTrace,
   released |-> FALSE]

Init ==
  /\ hive \in Hives
  /\ nodes = <<TreeNode(At.root, 0, 0)>>
  /\ lastOp = NoOp
  /\ type_object = pyregf_value_types_type_object

\* the node and the record of the call, once the loader has returned r
LoadNodeReturns(n, r) ==
  /\ nodes' = [nodes EXCEPT ![n] = r.node]
  /\ lastOp' = [NoOp EXCEPT !.op = "read_node_data", !.node = n,
                  !.args = <<nodes[n].offset, nodes[n].size>>,
                  !.node_before = <<nodes[n]>>,
                  !.result = r.result, !.key_item = <<r.key_item>>,
                  !.freed = r.freed, !.calls = r.calls,
                  !.decoded_with = r.decoded_with,
                  !.out_of_bounds = r.out_of_bounds]

\* the tree asks for the value of a node that is not cached
LoadNode(n) ==
  /\ nodes[n].value = <<>>
  /\ LoadNodeReturns(n, libregf_key_item_read_node_data(hive, nodes[n],
                          nodes[n].offset, nodes[n].size))
  /\ UNCHANGED <<hive, type_object>>

\* the tree asks for the sub nodes of a node that has a sub nodes data
\* range and whose sub nodes were not read yet; a read past the end of the
\* copy of a cell payload is undefined: the call may return either result
ReadSubNodes(n) ==
  /\ nodes[n].range # <<>>
  /\ ~nodes[n].sub_nodes_read
  /\ LET before == SubNodesOf(n)
         r == libregf_key_item_read_sub_nodes(hive, before,
                nodes[n].range[1])
         added == SubSeq(r.sub_nodes, Len(before) + 1, Len(r.sub_nodes))
     IN  /\ Len(nodes) + Len(added) <= MaxNodes
         /\ \E result \in {r.result, 1, -1} :
              /\ r.out_of_bounds \/ result = r.result
              /\ nodes' = [i \in 1 .. Len(nodes) |->
                             IF i = n /\ result = 1
                             THEN [nodes[i] EXCEPT !.sub_nodes_read = TRUE]
                             ELSE nodes[i]]
                          \o [i \in 1 .. Len(added) |->
                                TreeNode(added[i].offset, added[i].size, n)]
              /\ lastOp' = [NoOp EXCEPT !.op = "read_sub_nodes", !.node = n,
                              !.args = <<nodes[n].range[1]>>,
                              !.node_before = <<nodes[n]>>,
                              !.result = result, !.walk = r.walk,
                              !.added = added, !.calls = r.calls,
                              !.out_of_bounds = r.out_of_bounds,
                              !.trace = r.trace]
  /\ UNCHANGED <<hive, type_object>>

\* the cache of the tree drops the value of a node; the key item is freed
EvictNode(n) ==
  /\ nodes[n].value # <<>>
  /\ nodes' = [nodes EXCEPT ![n].value = <<>>]
  /\ lastOp' = [NoOp EXCEPT !.op = "evict", !.node = n]
  /\ UNCHANGED <<hive, type_object>>

Next ==
  \/ \E n \in 1 .. Len(nodes) : LoadNode(n)
  \/ \E n \in 1 .. Len(nodes) : ReadSubNodes(n)
  \/ \E n \in 1 .. Len(nodes) : EvictNode(n)

Spec == Init /\ [][Next]_vars

\* ------------------------------------------------------------------------
\* The functions of the key item called on their own, on a key item that
\* is not part of the tree
\* ------------------------------------------------------------------------

UnitHives ==
  {Hive(PlainKey, values, DefaultTop, DefaultA, DefaultB) :
     values \in ValuesLists}

InitUnit ==
  /\ hive \in UnitHives
  /\ nodes = <<TreeNode(At.root, 0, 0)>>
  /\ lastOp = NoOp
  /\ type_object = pyregf_value_types_type_object

\* the key items the functions are called on: a new one, and one that has
\* a class name already or one that has its values list
KeyItemWithClassName ==
  [libregf_key_item_initialize EXCEPT !.class_name = << <<67, 0>> >>,
                                      !.class_name_size = 2]

KeyItemWithValuesList ==
  [libregf_key_item_initialize EXCEPT !.values_list = << <<>> >>,
                                      !.values_cache = << {} >>]

CallReadClassName(key_item, class_name_offset, class_name_size) ==
  /\ LET r == libregf_key_item_read_class_name(hive, key_item,
                class_name_offset, class_name_size)
     IN  lastOp' = [NoOp EXCEPT !.op = "read_class_name",
                      !.args = <<class_name_offset, class_name_size>>,
                      !.before = <<key_item>>, !.result = r.result,
                      !.key_item = <<r.key_item>>, !.calls = r.calls]
  /\ UNCHANGED <<hive, nodes, type_object>>

\* a read past the end of the cell payload is undefined: the call may
\* return either result
CallReadValuesList(key_item, values_list_offset, number_of_values) ==
  /\ LET r == libregf_key_item_read_values_list(hive, key_item,
                values_list_offset, number_of_values)
     IN  \E result \in {1, -1} :
           /\ r.out_of_bounds \/ result = r.result
           /\ lastOp' = [NoOp EXCEPT !.op = "read_values_list",
                           !.args = <<values_list_offset, number_of_values>>,
                           !.before = <<key_item>>, !.result = result,
                           !.key_item = <<r.key_item>>, !.calls = r.calls,
                           !.out_of_bounds = r.out_of_bounds,
                           !.borrow_reads = r.borrow_reads]
  /\ UNCHANGED <<hive, nodes, type_object>>

\* a key item that has its named key already
KeyItemWithNamedKey ==
  [libregf_key_item_initialize EXCEPT !.named_key = <<PlainKey>>]

\* the node and the record of the call, once read_named_key has returned r
CallReadNamedKeyReturns(key_item, named_key_offset, named_key_hash, r) ==
  /\ nodes' = <<r.node>>
  /\ lastOp' = [NoOp EXCEPT !.op = "read_named_key", !.node = 1,
                  !.args = <<named_key_offset, named_key_hash>>,
                  !.before = <<key_item>>, !.node_before = <<nodes[1]>>,
                  !.result = r.result, !.key_item = <<r.key_item>>,
                  !.calls = r.calls, !.decoded_with = r.decoded_with,
                  !.out_of_bounds = r.out_of_bounds]

CallReadNamedKey(key_item, named_key_offset, named_key_hash) ==
  /\ CallReadNamedKeyReturns(key_item, named_key_offset, named_key_hash,
       libregf_key_item_read_named_key(hive, key_item, nodes[1],
                                       named_key_offset, named_key_hash))
  /\ UNCHANGED <<hive, type_object>>

NextUnit ==
  \/ \E key_item \in {libregf_key_item_initialize, KeyItemWithClassName} :
       \E class_name_offset \in {ABSENT, 0, At.class, At.values, At.nocell,
                                 At.outside} :
         \E class_name_size \in {0, 4, 6, 7} :
           CallReadClassName(key_item, class_name_offset, class_name_size)
  \/ \E key_item \in {libregf_key_item_initialize, KeyItemWithValuesList} :
       \E values_list_offset \in {ABSENT, 0, At.values, At.nocell,
                                  At.outside} :
         \E number_of_values \in (0 .. MaxListLen + 1) \cup {1073741824} :
           CallReadValuesList(key_item, values_list_offset, number_of_values)
  \/ \E key_item \in {libregf_key_item_initialize, KeyItemWithNamedKey} :
       \E named_key_offset \in {0, ABSENT, At.root, At.keyA, At.keyB,
                                 At.class, At.nocell} :
         \E named_key_hash \in {0, HashOf.keyA} :
           CallReadNamedKey(key_item, named_key_offset, named_key_hash)

SpecUnit == InitUnit /\ [][NextUnit]_vars

\* ------------------------------------------------------------------------
\* The key tree on hives in which the ri cells form chains and cycles
\* ------------------------------------------------------------------------

ChainTops ==
  {IndexCell(Sig.ri, 1, <<At.index>>, <<>>),
   IndexCell(Sig.ri, 2, <<At.indexA, At.indexB>>, <<>>),
   IndexCell(Sig.ri, 3, <<At.indexA, At.outside, At.indexB>>, <<>>)}

ChainA ==
  {IndexCell(Sig.ri, 1, <<At.index>>, <<>>),
   IndexCell(Sig.ri, 1, <<At.indexA>>, <<>>),
   IndexCell(Sig.ri, 1, <<At.indexB>>, <<>>),
   IndexCell(Sig.ri, 1, <<At.indexC>>, <<>>),
   IndexCell(Sig.ri, 0, <<>>, <<>>),
   IndexCell(Sig.xx, 1, <<At.index>>, <<>>)}

ChainB ==
  {IndexCell(Sig.ri, 1, <<At.indexA>>, <<>>),
   IndexCell(Sig.ri, 1, <<At.index>>, <<>>),
   IndexCell(Sig.ri, 2, <<At.indexC, At.nocell>>, <<>>),
   IndexCell(Sig.ri, 1, <<At.indexC>>, <<>>),
   IndexCell(Sig.li, 1, <<At.keyB>>, <<>>)}

ChainHives ==
  LET hives == {Hive([PlainKey EXCEPT !.sub_keys_list_offset = At.index,
                                      !.number_of_sub_keys = 2],
                     DefaultValues, top, a, b) :
                  top \in ChainTops, a \in ChainA, b \in ChainB}
  IN  hives \cup {[h EXCEPT !.evicts = TRUE] : h \in hives}

InitChain ==
  /\ hive \in ChainHives
  /\ nodes = <<TreeNode(At.root, 0, 0)>>
  /\ lastOp = NoOp
  /\ type_object = pyregf_value_types_type_object

SpecChain == InitChain /\ [][Next]_vars

\* ------------------------------------------------------------------------
\* The type object of the value types, as the module initialises it
\* ------------------------------------------------------------------------

\* the calls on the Python API that fail in one call of init_type: 0 for
\* PyDict_New, 1 .. 12 for the calls of PyDict_SetItemString
FailingCalls ==
  {failing \in SUBSET (0 .. Len(value_types_items)) :
     Cardinality(failing) <= MaxFailingCalls}

InitTypes ==
  /\ hive = Hive(PlainKey, DefaultValues, DefaultTop, DefaultA, DefaultB)
  /\ nodes = <<TreeNode(At.root, 0, 0)>>
  /\ lastOp = NoOp
  /\ type_object = pyregf_value_types_type_object

\* the type object and the record of the call, once init_type has
\* returned r
CallInitTypeReturns(argument, failing, r) ==
  /\ type_object' = IF argument = <<>> THEN type_object ELSE r.type_object
  /\ lastOp' = [NoOp EXCEPT !.op = "init_type",
                  !.args = <<argument, failing>>,
                  !.before = type_object,
                  !.result = r.result, !.released = r.released]

\* init_type is called with NULL or with the type object
CallInitType(argument, failing) ==
  /\ CallInitTypeReturns(argument, failing,
       pyregf_value_types_init_type(argument, failing))
  /\ UNCHANGED <<hive, nodes>>

NextTypes ==
  \E argument \in {<<>>, type_object} :
    \E failing \in FailingCalls : CallInitType(argument, failing)

SpecTypes == InitTypes /\ [][NextTypes]_vars

\* ------------------------------------------------------------------------
\* What a hive holds, read off its cells
\* ------------------------------------------------------------------------

InBin(offset) == offset \in hive.known

IsCell(offset) == offset \in DOMAIN hive.cells

Payload(offset) == hive.cells[offset].data

RECURSIVE Flatten(_)
Flatten(seqs) ==
  IF seqs = <<>> THEN <<>> ELSE Head(seqs) \o Flatten(Tail(seqs))

\* the named key a cell holds for the decoder that is given this name hash
KeyOnDisk(offset, hash) ==
  IF offset # 0 /\ offset # ABSENT /\ IsCell(offset)
     /\ hive.cells[offset].nk # <<>>
     /\ (hash = 0 \/ hash = hive.cells[offset].nk[1].name_hash)
  THEN hive.cells[offset].nk
  ELSE <<>>

\* the first number element offsets of a values list cell
ValuesOnDisk(offset, number) ==
  [i \in 1 .. number |->
     byte_stream_copy_to_uint32_little_endian(Payload(offset), 4 * i - 3)]

HoldsValues(offset, number) ==
  IsCell(offset) /\ Len(Payload(offset)) \div 4 >= number

\* the elements of the values list of a named key that lie in no hive bin
DroppedValues(named_key) ==
  IF named_key.number_of_values > 0
     /\ HoldsValues(named_key.values_list_offset, named_key.number_of_values)
  THEN {i \in 1 .. named_key.number_of_values :
          ~InBin(ValuesOnDisk(named_key.values_list_offset,
                              named_key.number_of_values)[i])}
  ELSE {}

\* a sub keys list cell
IndexElementSize(offset) ==
  IF SubSeq(Payload(offset), 1, 2) \in {Sig.lf, Sig.lh} THEN 8 ELSE 4

IndexIsInterior(offset) == SubSeq(Payload(offset), 1, 2) = Sig.ri

IndexNumberOfElements(offset) ==
  byte_stream_copy_to_uint16_little_endian(Payload(offset), 3)

\* the cell has a signature or a size that is no sub keys list
StructuralFailure(offset) ==
  /\ IsCell(offset)
  /\ \/ Len(Payload(offset)) < 4
     \/ SubSeq(Payload(offset), 1, 2) \notin {Sig.ri, Sig.li, Sig.lf, Sig.lh}
     \/ Len(Payload(offset))
          < 4 + IndexNumberOfElements(offset) * IndexElementSize(offset)

\* the offset is no cell at all: absent, or not to be retrieved
NoCell(offset) == offset = 0 \/ offset = ABSENT \/ ~IsCell(offset)

IndexElement(offset, i) ==
  LET at == 4 + IndexElementSize(offset) * (i - 1)
  IN  [offset |-> byte_stream_copy_to_uint32_little_endian(
                    Payload(offset), at + 1),
       hash |-> IF IndexElementSize(offset) = 8
                THEN byte_stream_copy_to_uint32_little_endian(
                       Payload(offset), at + 5)
                ELSE 0]

IndexElements(offset) ==
  [i \in 1 .. IndexNumberOfElements(offset) |-> IndexElement(offset, i)]

\* the index cells a walk from offset comes to
RECURSIVE VisitedCells(_, _)
VisitedCells(offset, depth) ==
  IF depth > MaxDepth THEN {}
  ELSE {offset} \cup
       IF ~NoCell(offset) /\ ~StructuralFailure(offset)
          /\ IndexIsInterior(offset)
       THEN UNION {VisitedCells(IndexElements(offset)[i].offset, depth + 1) :
                     i \in {j \in DOMAIN IndexElements(offset) :
                              InBin(IndexElements(offset)[j].offset)}}
       ELSE {}

\* the element offsets of the cells a walk from offset comes to, depth first
RECURSIVE ElementsInOrder(_, _)
ElementsInOrder(offset, depth) ==
  IF depth > MaxDepth \/ NoCell(offset) \/ StructuralFailure(offset)
  THEN <<>>
  ELSE Flatten([i \in DOMAIN IndexElements(offset) |->
         LET e == IndexElements(offset)[i]
         IN  <<e.offset>> \o
             IF InBin(e.offset) /\ IndexIsInterior(offset)
             THEN ElementsInOrder(e.offset, depth + 1)
             ELSE <<>>])

\* the leaf elements among them that lie in a hive bin, as sub nodes
RECURSIVE LeavesInOrder(_, _)
LeavesInOrder(offset, depth) ==
  IF depth > MaxDepth \/ NoCell(offset) \/ StructuralFailure(offset)
  THEN <<>>
  ELSE Flatten([i \in DOMAIN IndexElements(offset) |->
         LET e == IndexElements(offset)[i]
         IN  IF ~InBin(e.offset) THEN <<>>
             ELSE IF IndexIsInterior(offset)
             THEN LeavesInOrder(e.offset, depth + 1)
             ELSE <<[offset |-> e.offset, size |-> e.hash, flags |-> 0]>>])

\* the offsets the logged calls of get_index_at_offset asked for
ProbedOffsets(calls) ==
  LET probes == SelectSeq(calls, LAMBDA c : c.fn = "get_index_at_offset")
  IN  [i \in 1 .. Len(probes) |-> probes[i].offset]

LoadedNodes == {n \in 1 .. Len(nodes) : nodes[n].value # <<>>}

ItemOf(n) == nodes[n].value[1]

\* ------------------------------------------------------------------------
\* Claims
\* ------------------------------------------------------------------------

\* C1: after read_sub_nodes has enumerated a key whose sub keys index holds
\* an element offset that lies in no hive bin, the key item of the key is
\* marked corrupted, and the sub nodes appended are as many as the leaf
\* elements that lie in a hive bin.
C1_PartialWalkMarksKeyItem ==
  (/\ lastOp.op = "read_sub_nodes"
   /\ lastOp.result = 1
   /\ \E i \in 1 .. Len(lastOp.calls) :
        /\ lastOp.calls[i].fn = "get_index_at_offset"
        /\ ~InBin(lastOp.calls[i].offset))
  => /\ nodes[lastOp.node].value # <<>>
          => IS_CORRUPTED \in ItemOf(lastOp.node).item_flags
     /\ Len(lastOp.added) = Len(LeavesInOrder(lastOp.args[1], 1))

\* C2: read_values_list with a count above 0, on a cell that holds that
\* many offsets, succeeds; the values list is the offsets of the cell
\* that lie in a hive bin, in their order; the key item is marked
\* corrupted exactly if an element was passed over; with no element
\* passed over the list has count elements.
C2_ValuesListIsElementsInBin ==
  (/\ lastOp.op = "read_values_list"
   /\ lastOp.before = <<KeyItemWithValuesList>>
   /\ lastOp.args[2] > 0
   /\ HoldsValues(lastOp.args[1], lastOp.args[2]))
  => LET on_disk == ValuesOnDisk(lastOp.args[1], lastOp.args[2])
         key_item == lastOp.key_item[1]
     IN  /\ lastOp.result = 1
         /\ key_item.values_list = <<SelectSeq(on_disk, InBin)>>
         /\ IS_CORRUPTED \in key_item.item_flags
              <=> \E i \in DOMAIN on_disk : ~InBin(on_disk[i])
         /\ (\A i \in DOMAIN on_disk : InBin(on_disk[i]))
              => libregf_key_item_get_number_of_values(key_item)
                   .number_of_values = lastOp.args[2]

C2_Witness ==
  /\ lastOp.op = "read_values_list"
  /\ lastOp.before = <<KeyItemWithValuesList>>
  /\ lastOp.args = <<At.values, 2>>
  /\ lastOp.result = 1
  /\ lastOp.key_item[1].values_list = << <<At.value2>> >>
  /\ IS_CORRUPTED \in lastOp.key_item[1].item_flags

\* C3 as it was claimed: the values list of a loaded key item has
\* number_of_values elements less those dropped for an offset in no hive
\* bin.
C3_NumberOfValuesLessDropped ==
  \A n \in LoadedNodes :
    libregf_key_item_get_number_of_values(ItemOf(n)).number_of_values
      = ItemOf(n).named_key[1].number_of_values
          - Cardinality(DroppedValues(ItemOf(n).named_key[1]))

\* C3, amended: the values list of a loaded key item has number_of_values
\* elements less those dropped for an offset in no hive bin if the values
\* list offset lies in a hive bin, and no elements if it does not.
C3_NumberOfValuesOfReadList ==
  \A n \in LoadedNodes :
    LET named_key == ItemOf(n).named_key[1]
        number == libregf_key_item_get_number_of_values(ItemOf(n))
    IN  /\ number.result = 1
        /\ number.number_of_values
             = IF InBin(named_key.values_list_offset)
               THEN named_key.number_of_values
                      - Cardinality(DroppedValues(named_key))
               ELSE 0

C3_Witness ==
  \E n \in LoadedNodes :
    /\ ItemOf(n).named_key[1].number_of_values = 2
    /\ Cardinality(DroppedValues(ItemOf(n).named_key[1])) = 1
    /\ Len(ItemOf(n).values_list[1]) = 1

\* C4 as it was claimed: the walk returns 1 exactly if every element of
\* every visited cell lies in a hive bin and no cell fails structurally,
\* 0 exactly if some element does not and no cell fails structurally, and
\* -1 only for a visited cell with a bad signature or too small a payload.
C4_WalkResultStructural ==
  lastOp.op = "read_sub_nodes" =>
    LET visited == VisitedCells(lastOp.args[1], 1)
        failure == \E v \in visited : StructuralFailure(v)
        unknown == \E v \in visited :
                     /\ ~NoCell(v) /\ ~StructuralFailure(v)
                     /\ \E i \in DOMAIN IndexElements(v) :
                          ~InBin(IndexElements(v)[i].offset)
    IN  /\ lastOp.walk = 1 <=> (~failure /\ ~unknown)
        /\ lastOp.walk = 0 <=> (~failure /\ unknown)
        /\ lastOp.walk = -1 => failure

\* C4, amended: the walk returns -1 exactly if a visited cell has a bad
\* signature or too small a payload, or cannot be retrieved (its offset is
\* 0 or 0xffffffff, or no cell is there); otherwise 0 if some element of
\* a visited cell lies in no hive bin and 1 if none does.  An element in
\* no hive bin does not stop the walk: every element of every visited
\* cell is probed, in order.
C4_WalkResult ==
  lastOp.op = "read_sub_nodes" =>
    LET visited == VisitedCells(lastOp.args[1], 1)
        failure == \E v \in visited : NoCell(v) \/ StructuralFailure(v)
        unknown == \E v \in visited :
                     /\ ~NoCell(v) /\ ~StructuralFailure(v)
                     /\ \E i \in DOMAIN IndexElements(v) :
                          ~InBin(IndexElements(v)[i].offset)
    IN  /\ lastOp.walk \in {1, 0, -1}
        /\ lastOp.walk = -1 <=> failure
        /\ lastOp.walk = 0 <=> (~failure /\ unknown)
        /\ lastOp.walk = 1 <=> (~failure /\ ~unknown)
        /\ lastOp.walk # -1
             => ProbedOffsets(lastOp.calls)
                  = ElementsInOrder(lastOp.args[1], 1)

C4_Witness ==
  /\ lastOp.op = "read_sub_nodes"
  /\ lastOp.walk = 0
  /\ IndexIsInterior(lastOp.args[1])
  /\ ProbedOffsets(lastOp.calls)
       = <<At.indexA, At.keyA, At.outside, At.indexB, At.outside, At.keyB>>

\* C5: a walk that returns 1 or 0 appends one sub node for every leaf
\* element that lies in a hive bin, depth first in the order of the cells,
\* duplicates kept, each with the offset of the element and its hash (0
\* for li) as size; read_node_data hands the size of the node to the named
\* key decoder as the name hash.
C5_SubNodesInOrderWithHash ==
  /\ (lastOp.op = "read_sub_nodes" /\ lastOp.walk \in {0, 1})
       => /\ lastOp.added = LeavesInOrder(lastOp.args[1], 1)
          /\ LET sub_nodes == SubNodesOf(lastOp.node)
             IN  /\ Len(sub_nodes) >= Len(lastOp.added)
                 /\ SubSeq(sub_nodes,
                           Len(sub_nodes) - Len(lastOp.added) + 1,
                           Len(sub_nodes)) = lastOp.added
  /\ (lastOp.op = "read_node_data" /\ lastOp.decoded_with # <<>>)
       => lastOp.decoded_with = <<nodes[lastOp.node].size>>

C5_Witness ==
  /\ lastOp.op = "read_node_data"
  /\ lastOp.result = 1
  /\ lastOp.node = 3
  /\ lastOp.decoded_with = <<HashOf.keyB>>
  /\ IndexIsInterior(nodes[1].range[1])
  /\ SubNodesOf(1) = <<[offset |-> At.keyA, size |-> HashOf.keyA, flags |-> 0],
                       [offset |-> At.keyB, size |-> HashOf.keyB, flags |-> 0]>>

\* C6: whenever read_sub_nodes returns an error, that call has appended no
\* sub nodes to the tree node.
C6_ErrorAppendsNothing ==
  (lastOp.op = "read_sub_nodes" /\ lastOp.result = -1)
    => lastOp.added = <<>>

\* C7: read_sub_nodes returns 1 whenever the walk returns 1 or 0, and -1
\* exactly if the walk returns -1.
C7_PartialWalkIsSuccess ==
  lastOp.op = "read_sub_nodes" =>
    /\ lastOp.walk \in {0, 1} => lastOp.result = 1
    /\ lastOp.result = -1 <=> lastOp.walk = -1

C7_Witness ==
  /\ lastOp.op = "read_sub_nodes"
  /\ lastOp.walk = 0
  /\ lastOp.result = 1
  /\ nodes[lastOp.node].sub_nodes_read

\* C8: read_class_name, on a key item without class name: offset
\* 0xffffffff succeeds without a call on the store and without class name,
\* whatever the size; so does offset 0 with size 0; offset 0 with another
\* size fails; any other offset retrieves the cell and fails exactly if
\* the size is 0 or exceeds the payload or the cell cannot be retrieved.
\* After a failure the key item has no class name.
C8_ClassNamePolicy ==
  (lastOp.op = "read_class_name"
     /\ lastOp.before = <<libregf_key_item_initialize>>)
  => LET offset == lastOp.args[1]
         size == lastOp.args[2]
         key_item == lastOp.key_item[1]
     IN  /\ lastOp.result \in {1, -1}
         /\ offset = ABSENT
              => /\ lastOp.result = 1 /\ lastOp.calls = <<>>
                 /\ key_item.class_name = <<>>
         /\ (offset = 0 /\ size = 0)
              => /\ lastOp.result = 1 /\ lastOp.calls = <<>>
                 /\ key_item.class_name = <<>>
         /\ (offset = 0 /\ size > 0)
              => lastOp.result = -1 /\ lastOp.calls = <<>>
         /\ (offset # 0 /\ offset # ABSENT)
              => /\ lastOp.calls
                      = <<StoreCall("get_cell_at_offset", offset,
                                    "read_class_name")>>
                 /\ lastOp.result = -1
                      <=> \/ size = 0
                          \/ ~IsCell(offset)
                          \/ size > Len(Payload(offset))
         /\ lastOp.result = -1
              => key_item.class_name = <<>> /\ key_item.class_name_size = 0

C8_Witness ==
  /\ lastOp.op = "read_class_name"
  /\ lastOp.before = <<libregf_key_item_initialize>>
  /\ lastOp.args = <<At.class, 7>>
  /\ lastOp.result = -1
  /\ lastOp.calls # <<>>
  /\ lastOp.key_item[1].class_name = <<>>

\* C9: a loaded key item has a class name exactly if class_name_offset is
\* neither 0 nor 0xffffffff and class_name_size is above 0 and at most the
\* size of the payload of the cell; the class name then is the first
\* class_name_size bytes of that payload and no more; the stored
\* class_name_size is 0 exactly if there is no class name.
C9_ClassNameIsPayloadPrefix ==
  \A n \in LoadedNodes :
    LET named_key == ItemOf(n).named_key[1]
        offset == named_key.class_name_offset
        size == named_key.class_name_size
        present == ItemOf(n).class_name # <<>>
    IN  /\ present <=> /\ offset # 0 /\ offset # ABSENT
                       /\ IsCell(offset)
                       /\ 0 < size /\ size <= Len(Payload(offset))
        /\ present =>
             /\ Len(ItemOf(n).class_name[1]) = size
             /\ \A i \in 1 .. size :
                  ItemOf(n).class_name[1][i] = Payload(offset)[i]
             /\ ItemOf(n).class_name_size = size
        /\ ItemOf(n).class_name_size = 0 <=> ~present

C9_Witness ==
  \E n \in LoadedNodes :
    /\ ItemOf(n).class_name = << <<65, 0, 66, 0>> >>
    /\ ItemOf(n).class_name_size = 4
    /\ Len(Payload(ItemOf(n).named_key[1].class_name_offset)) = 6

\* the key item of the last read_node_data is corrupted on account of its
\* sub keys list or of its values list
CorruptedBySubKeys(named_key) ==
  /\ named_key.number_of_sub_keys > 0
  /\ lastOp.node_before[1].range = <<>>
  /\ ~InBin(named_key.sub_keys_list_offset)

CorruptedByValues(named_key) ==
  \/ ~InBin(named_key.values_list_offset)
  \/ DroppedValues(named_key) # {}

\* C10: for a named key with security_key_offset 0xffffffff no security
\* cell is retrieved, the key item is loaded without security descriptor
\* and is marked corrupted only on account of its sub keys or values; for
\* any other offset, a security cell that cannot be retrieved or decoded
\* makes the load fail.
C10_SecurityKeyAbsentOrFatal ==
  (lastOp.op = "read_node_data"
     /\ KeyOnDisk(lastOp.args[1], lastOp.args[2]) # <<>>)
  => LET named_key == KeyOnDisk(lastOp.args[1], lastOp.args[2])[1]
         offset == named_key.security_key_offset
     IN  /\ offset = ABSENT =>
               /\ \A i \in 1 .. Len(lastOp.calls) :
                    lastOp.calls[i].by # "read_security_key"
               /\ lastOp.result = 1 =>
                    /\ ItemOf(lastOp.node).security_descriptor = <<>>
                    /\ IS_CORRUPTED \in ItemOf(lastOp.node).item_flags
                         <=> \/ CorruptedBySubKeys(named_key)
                             \/ CorruptedByValues(named_key)
         /\ (offset # ABSENT
               /\ (NoCell(offset) \/ hive.cells[offset].sk = <<>>))
              => /\ lastOp.result = -1
                 /\ nodes[lastOp.node].value = <<>>

C10_Witness ==
  /\ lastOp.op = "read_node_data"
  /\ lastOp.result = 1
  /\ ItemOf(lastOp.node).named_key[1].security_key_offset = ABSENT
  /\ ItemOf(lastOp.node).security_descriptor = <<>>
  /\ ItemOf(lastOp.node).item_flags = {}
  /\ ItemOf(lastOp.node).values_list = << <<At.value1, At.value2>> >>

\* C11: when the named key of a key that is loaded has number_of_values
\* 0, read_values_list retrieves no cell, whatever values_list_offset is,
\* and the values list of the loaded key item is empty.
C11_NoValuesNoFetch ==
  (lastOp.op = "read_node_data"
     /\ KeyOnDisk(lastOp.args[1], lastOp.args[2]) # <<>>
     /\ KeyOnDisk(lastOp.args[1], lastOp.args[2])[1].number_of_values = 0)
  => /\ \A i \in 1 .. Len(lastOp.calls) :
          ~(lastOp.calls[i].fn = "get_cell_at_offset"
              /\ lastOp.calls[i].by = "read_values_list")
     /\ lastOp.result = 1
          => /\ ItemOf(lastOp.node).values_list = << <<>> >>
             /\ libregf_key_item_get_number_of_values(ItemOf(lastOp.node))
                  = [result |-> 1, number_of_values |-> 0]

C11_Witness ==
  /\ lastOp.op = "read_node_data"
  /\ lastOp.result = 1
  /\ ItemOf(lastOp.node).named_key[1].number_of_values = 0
  /\ ItemOf(lastOp.node).named_key[1].values_list_offset = 0
  /\ ItemOf(lastOp.node).values_list = << <<>> >>
  /\ \E i \in 1 .. Len(lastOp.calls) :
       lastOp.calls[i] = StoreCall("get_index_at_offset", 0, "read_named_key")

\* C12: a key with number_of_sub_keys 0, number_of_values 0 and class name
\* and security key offsets 0xffffffff loads with no values, no sub nodes
\* data range on its tree node and without the corrupted flag, when its
\* values list offset and its sub keys list offset lie in a hive bin and
\* also when they are 0xffffffff.
C12_EmptyKeyLoadsClean ==
  (/\ lastOp.op = "read_node_data"
   /\ KeyOnDisk(lastOp.args[1], lastOp.args[2]) # <<>>
   /\ LET named_key == KeyOnDisk(lastOp.args[1], lastOp.args[2])[1]
      IN  /\ named_key.number_of_sub_keys = 0
          /\ named_key.number_of_values = 0
          /\ named_key.class_name_offset = ABSENT
          /\ named_key.security_key_offset = ABSENT
          /\ \/ InBin(named_key.values_list_offset)
             \/ named_key.values_list_offset = ABSENT
          /\ \/ InBin(named_key.sub_keys_list_offset)
             \/ named_key.sub_keys_list_offset = ABSENT
   /\ lastOp.node_before[1].range = <<>>)
  => /\ lastOp.result = 1
     /\ nodes[lastOp.node].value # <<>>
     /\ libregf_key_item_get_number_of_values(ItemOf(lastOp.node))
          = [result |-> 1, number_of_values |-> 0]
     /\ nodes[lastOp.node].range = <<>>
     /\ IS_CORRUPTED \notin ItemOf(lastOp.node).item_flags

\* C13: read_named_key with a named key offset of 0 or of 0xffffffff
\* returns -1 without a call on the store and leaves the key item and the
\* tree node as they were.
C13_InvalidOffsetIsArgumentError ==
  (lastOp.op = "read_named_key"
     /\ (lastOp.args[1] = 0 \/ lastOp.args[1] = ABSENT))
  => /\ lastOp.result = -1
     /\ lastOp.calls = <<>>
     /\ lastOp.key_item = lastOp.before
     /\ nodes[lastOp.node] = lastOp.node_before[1]

C13_Witness ==
  /\ lastOp.op = "read_named_key"
  /\ lastOp.args[1] = ABSENT
  /\ lastOp.before = <<libregf_key_item_initialize>>
  /\ lastOp.result = -1
  /\ lastOp.calls = <<>>
  /\ lastOp.key_item = <<libregf_key_item_initialize>>

\* the class name, the security key and the values list of a named key
\* can be read from the cells of the hive
ClassNameReadable(named_key) ==
  LET offset == named_key.class_name_offset
      size == named_key.class_name_size
  IN  \/ offset = ABSENT
      \/ offset = 0 /\ size = 0
      \/ /\ offset # 0 /\ IsCell(offset)
         /\ 0 < size /\ size <= Len(Payload(offset))

SecurityKeyReadable(named_key) ==
  LET offset == named_key.security_key_offset
  IN  \/ offset = ABSENT
      \/ ~NoCell(offset) /\ hive.cells[offset].sk # <<>>

ValuesListReadable(named_key) ==
  LET offset == named_key.values_list_offset
  IN  \/ ~InBin(offset)
      \/ named_key.number_of_values = 0
      \/ ~NoCell(offset) /\ HoldsValues(offset, named_key.number_of_values)

\* the offsets read_named_key itself looked up in the hive bins
ProbedByNamedKey(calls) ==
  ProbedOffsets(SelectSeq(calls, LAMBDA c : c.by = "read_named_key"))

\* C14: a key with number_of_sub_keys above 0 is loaded on a tree node
\* without sub nodes data range.  If sub_keys_list_offset lies in no hive
\* bin, the load succeeds all the same (it fails only for a class name,
\* security key or values list that cannot be read), the key item is
\* marked corrupted and no range is set; if it lies in a hive bin the
\* range is set to it and the key item is marked corrupted only on
\* account of its values.  With number_of_sub_keys 0 no range is set and
\* the sub keys list offset is not looked up.
C14_SubNodesRangePolicy ==
  (lastOp.op = "read_node_data"
     /\ KeyOnDisk(lastOp.args[1], lastOp.args[2]) # <<>>
     /\ lastOp.node_before[1].range = <<>>)
  => LET named_key == KeyOnDisk(lastOp.args[1], lastOp.args[2])[1]
         offset == named_key.sub_keys_list_offset
         readable == /\ ClassNameReadable(named_key)
                     /\ SecurityKeyReadable(named_key)
                     /\ ValuesListReadable(named_key)
     IN  /\ lastOp.result = 1 <=> readable
         /\ (lastOp.result = 1 /\ named_key.number_of_sub_keys > 0
               /\ ~InBin(offset))
              => /\ IS_CORRUPTED \in ItemOf(lastOp.node).item_flags
                 /\ nodes[lastOp.node].range = <<>>
                 /\ ProbedByNamedKey(lastOp.calls)
                      = <<offset, named_key.values_list_offset>>
         /\ (lastOp.result = 1 /\ named_key.number_of_sub_keys > 0
               /\ InBin(offset))
              => /\ nodes[lastOp.node].range = <<offset>>
                 /\ IS_CORRUPTED \in ItemOf(lastOp.node).item_flags
                      <=> CorruptedByValues(named_key)
         /\ (lastOp.result = 1 /\ named_key.number_of_sub_keys = 0)
              => /\ nodes[lastOp.node].range = <<>>
                 /\ ProbedByNamedKey(lastOp.calls)
                      = <<named_key.values_list_offset>>

C14_Witness ==
  /\ lastOp.op = "read_node_data"
  /\ lastOp.result = 1
  /\ lastOp.node_before[1].range = <<>>
  /\ ItemOf(lastOp.node).named_key[1].number_of_sub_keys = 2
  /\ ItemOf(lastOp.node).named_key[1].sub_keys_list_offset = At.outside
  /\ ItemOf(lastOp.node).item_flags = {IS_CORRUPTED}
  /\ nodes[lastOp.node].range = <<>>
  /\ ~CorruptedByValues(ItemOf(lastOp.node).named_key[1])

\* C15: on a store that overwrites the cell it returned before with every
\* cell it retrieves, the walk of the sub keys index returns the same
\* result, appends the same sub nodes in the same order and makes the
\* same calls as on a store that does not.
C15_WalkIgnoresEviction ==
  (lastOp.op = "read_sub_nodes" /\ hive.evicts)
  => LET reference == libregf_key_item_read_sub_nodes(
                        [hive EXCEPT !.evicts = FALSE], <<>>, lastOp.args[1])
     IN  /\ lastOp.result = reference.result
         /\ lastOp.walk = reference.walk
         /\ lastOp.added = reference.sub_nodes
         /\ lastOp.calls = reference.calls

\* sub nodes were appended after the walk had come back from another cell,
\* on a store that evicts
C15_Witness ==
  /\ lastOp.op = "read_sub_nodes"
  /\ hive.evicts
  /\ lastOp.walk = 1
  /\ IndexIsInterior(lastOp.args[1])
  /\ lastOp.added = <<[offset |-> At.keyA, size |-> HashOf.keyA, flags |-> 0],
                      [offset |-> At.keyB, size |-> 0, flags |-> 0]>>

\* C16: the objects of a key item have one owner and are released once.
\* After a load that failed the key item was freed and the tree node has
\* no value; read_named_key had released what it had made of the key item
\* before: named key, values list and values cache, class name and
\* security descriptor.  After a load that succeeded the tree node holds
\* the key item, which was not freed.
C16_FailedLoadHoldsNothing ==
  lastOp.op = "read_node_data" =>
    /\ lastOp.result = -1 =>
         /\ lastOp.freed
         /\ nodes[lastOp.node].value = <<>>
         /\ lastOp.key_item[1].named_key = <<>>
         /\ lastOp.key_item[1].values_list = <<>>
         /\ lastOp.key_item[1].values_cache = <<>>
         /\ lastOp.key_item[1].class_name = <<>>
         /\ lastOp.key_item[1].security_descriptor = <<>>
    /\ lastOp.result = 1 =>
         /\ ~lastOp.freed
         /\ nodes[lastOp.node].value = lastOp.key_item

\* the key item a first load of the key of node n makes, on a tree node
\* that has neither value nor sub nodes data range
FirstLoad(n) ==
  libregf_key_item_read_node_data(hive,
    TreeNode(nodes[n].offset, nodes[n].size, nodes[n].parent),
    nodes[n].offset, nodes[n].size)

\* C17: the key item of a key that is loaded, after any loads, evictions
\* and reads of sub nodes, equals the key item of a first load of the key:
\* named key, class name and its size, security descriptor and its size,
\* values list and corrupted flag.
C17_ReloadIsIdempotent ==
  /\ \A n \in LoadedNodes :
       /\ FirstLoad(n).result = 1
       /\ ItemOf(n) = FirstLoad(n).key_item
  /\ lastOp.op = "read_node_data"
       => lastOp.result = FirstLoad(lastOp.node).result

\* a key is loaded again, after its key item was evicted and its sub nodes
\* were read
C17_Witness ==
  /\ lastOp.op = "read_node_data"
  /\ lastOp.result = 1
  /\ lastOp.node = 1
  /\ lastOp.node_before[1].range # <<>>
  /\ lastOp.node_before[1].sub_nodes_read
  /\ Len(nodes) > 1
  /\ ItemOf(1).named_key[1].number_of_sub_keys = 2
  /\ ItemOf(1).class_name # <<>>
  /\ IS_CORRUPTED \in ItemOf(1).item_flags

\* C18: a load that fails leaves the tree node as it was before the load,
\* without value and without a sub nodes data range set by that load, and
\* the key item is freed.
C18_FailedLoadLeavesNode ==
  (lastOp.op = "read_node_data" /\ lastOp.result = -1)
  => /\ nodes[lastOp.node] = lastOp.node_before[1]
     /\ nodes[lastOp.node].value = <<>>
     /\ lastOp.freed

\* C19: read_values_list succeeds only on a cell payload of at least
\* count * 4 bytes, for every 32-bit count; it reads no element offset
\* past the end of the payload and its remaining size does not go below
\* zero.
C19_ValuesListWithinPayload ==
  lastOp.op = "read_values_list" =>
    /\ ~lastOp.out_of_bounds
    /\ (lastOp.result = 1 /\ lastOp.args[2] # 0)
         => HoldsValues(lastOp.args[1], lastOp.args[2])

\* the calls the walk made for the cell at offset alone: the call that
\* retrieved it
OnlyRetrieved(calls, offset) ==
  calls = <<StoreCall("get_cell_at_offset", offset, "read_sub_keys_list")>>

\* C20: a sub keys list cell with a payload of less than 4 bytes, with a
\* signature other than ri, li, lf, lh, or with a payload of less than
\* 4 + number_of_elements * element_size bytes makes the walk fail before
\* it looks at an element of the cell: no element is looked up and none
\* is appended, at any level: the call that retrieved the cell is the
\* last call of the walk (a walk that fails ends so, or with the look up
\* of an element offset 0, which is not retrieved).  A cell with
\* number_of_elements 0 gives 1 and no sub nodes.  No element is read
\* past the end of the copy of the payload.
C20_StructuralErrorsAreFatal ==
  lastOp.op = "read_sub_nodes" =>
    LET offset == lastOp.args[1]
        last == lastOp.calls[Len(lastOp.calls)]
    IN  /\ ~lastOp.out_of_bounds
        /\ (~NoCell(offset) /\ StructuralFailure(offset))
             => /\ lastOp.walk = -1
                /\ lastOp.result = -1
                /\ lastOp.added = <<>>
                /\ OnlyRetrieved(lastOp.calls, offset)
        /\ (~NoCell(offset) /\ ~StructuralFailure(offset)
              /\ IndexNumberOfElements(offset) = 0)
             => /\ lastOp.walk = 1
                /\ lastOp.added = <<>>
                /\ OnlyRetrieved(lastOp.calls, offset)
        /\ (\E v \in VisitedCells(offset, 1) :
               ~NoCell(v) /\ StructuralFailure(v))
             => lastOp.walk = -1
        /\ (lastOp.walk = -1 /\ lastOp.calls # <<>>)
             => IF last.fn = "get_cell_at_offset"
                THEN NoCell(last.offset) \/ StructuralFailure(last.offset)
                ELSE last.offset = 0

\* the payload is too small for the elements it says it has, of which
\* the first is there
C20_Witness ==
  /\ lastOp.op = "read_sub_nodes"
  /\ lastOp.walk = -1
  /\ ~NoCell(lastOp.args[1])
  /\ SubSeq(Payload(lastOp.args[1]), 1, 2) = Sig.lf
  /\ IndexNumberOfElements(lastOp.args[1]) = 2
  /\ Len(Payload(lastOp.args[1])) = 12
  /\ lastOp.added = <<>>
  /\ OnlyRetrieved(lastOp.calls, lastOp.args[1])

\* the calls of the last operation that retrieved a cell
Retrievals(calls) ==
  SelectSeq(calls, LAMBDA c : c.fn = "get_cell_at_offset")

\* C21: no cell is retrieved at offset 0 or 0xffffffff, neither for the
\* named key nor for class name, security key, values list or sub keys
\* list, at any level of the walk.  A load of a node at such an offset and
\* a walk from such an offset fail without a call on the store; a walk
\* that comes to an element offset 0 in an ri cell looks it up in the hive
\* bins and fails without retrieving it.
C21_SentinelsAreNotRetrieved ==
  /\ \A i \in 1 .. Len(lastOp.calls) :
       lastOp.calls[i].fn = "get_cell_at_offset"
         => lastOp.calls[i].offset # 0 /\ lastOp.calls[i].offset # ABSENT
  /\ (lastOp.op \in {"read_node_data", "read_sub_nodes"}
        /\ lastOp.args[1] \in {0, ABSENT})
       => lastOp.result = -1 /\ lastOp.calls = <<>>
  /\ (lastOp.op = "read_sub_nodes" /\ lastOp.calls # <<>>
        /\ lastOp.calls[Len(lastOp.calls)]
             = StoreCall("get_index_at_offset", 0, "read_sub_keys_list")
        /\ IndexIsInterior(Retrievals(lastOp.calls)
                             [Len(Retrievals(lastOp.calls))].offset))
       => lastOp.walk = -1

\* the walk came to an element offset 0 in an ri cell after it had read
\* another cell
C21_Witness ==
  /\ lastOp.op = "read_sub_nodes"
  /\ lastOp.walk = -1
  /\ lastOp.calls
       = <<StoreCall("get_cell_at_offset", At.index, "read_sub_keys_list"),
           StoreCall("get_index_at_offset", 0, "read_sub_keys_list")>>
  /\ IndexIsInterior(At.index)

\* C22: read_values_list reads no byte of the borrowed values list cell
\* after it has made another call on the store: every read of the cell is
\* made before the call that follows the one that retrieved it.
C22_NoReadOfStaleBorrow ==
  lastOp.op = "read_values_list" =>
    \A i \in 1 .. Len(lastOp.borrow_reads) :
      lastOp.borrow_reads[i].at = lastOp.borrow_reads[i].hive_bin_cell.at

\* the functions that retrieve a cell during a load, in the order in which
\* read_named_key comes to them
LoadOrder ==
  <<"read_named_key", "read_class_name", "read_security_key",
    "read_values_list">>

PlaceInLoadOrder(by) == CHOOSE i \in 1 .. Len(LoadOrder) : LoadOrder[i] = by

\* the offset that a function retrieves for the named key at offset
LoadOffset(by, offset, named_key) ==
  CASE by = "read_named_key" -> offset
    [] by = "read_class_name" -> named_key.class_name_offset
    [] by = "read_security_key" -> named_key.security_key_offset
    [] by = "read_values_list" -> named_key.values_list_offset

\* what the calls of a load are
LoadIsLazy ==
  lastOp.op = "read_node_data" =>
    LET fetched == Retrievals(lastOp.calls)
    IN  /\ \A i \in 1 .. Len(lastOp.calls) :
             lastOp.calls[i].by # "read_sub_keys_list"
        /\ \A i \in 1 .. Len(fetched) :
             \E k \in 1 .. Len(LoadOrder) : fetched[i].by = LoadOrder[k]
        /\ \A i, j \in 1 .. Len(fetched) :
             i < j => PlaceInLoadOrder(fetched[i].by)
                        < PlaceInLoadOrder(fetched[j].by)
        /\ fetched # <<>> =>
             fetched[1] = StoreCall("get_cell_at_offset", lastOp.args[1],
                                    "read_named_key")
        /\ Len(fetched) > 1 =>
             \A i \in 1 .. Len(fetched) :
               fetched[i].offset
                 = LoadOffset(fetched[i].by, lastOp.args[1],
                     KeyOnDisk(lastOp.args[1], lastOp.args[2])[1])
        /\ lastOp.result = 1 =>
             /\ ItemOf(lastOp.node).values_cache = << {} >>
             /\ \A i \in 1 .. Len(fetched) :
                  \A k \in 1 .. Len(ItemOf(lastOp.node).values_list[1]) :
                    fetched[i].offset # ItemOf(lastOp.node).values_list[1][k]

\* C23: a load retrieves at most the named key cell, the class name cell,
\* the security key cell and the values list cell, each once and in that
\* order; it retrieves neither the sub keys list cell nor the cell of a
\* value, leaves the values cache empty and appends no node: the tree has
\* the nodes it had, all but the loaded one unchanged.  The sub keys list
\* cells are retrieved by the sub nodes loader alone, which retrieves
\* nothing else.
C23_LoadIsLazy ==
  [][/\ LoadIsLazy'
     /\ lastOp'.op = "read_node_data" =>
          /\ Len(nodes') = Len(nodes)
          /\ \A n \in 1 .. Len(nodes) :
               n # lastOp'.node => nodes'[n] = nodes[n]
          /\ nodes'[lastOp'.node].sub_nodes_read
               = nodes[lastOp'.node].sub_nodes_read
     /\ lastOp'.op = "evict" => lastOp'.calls = <<>>
     /\ lastOp'.op = "read_sub_nodes" =>
          \A i \in 1 .. Len(lastOp'.calls) :
            lastOp'.calls[i].by = "read_sub_keys_list"]_vars

\* a key with class name, security key, two values and two sub keys is
\* loaded: four cells are retrieved, the range is set
C23_Witness ==
  /\ lastOp.op = "read_node_data"
  /\ lastOp.result = 1
  /\ Retrievals(lastOp.calls)
       = <<StoreCall("get_cell_at_offset", At.root, "read_named_key"),
           StoreCall("get_cell_at_offset", At.class, "read_class_name"),
           StoreCall("get_cell_at_offset", At.security, "read_security_key"),
           StoreCall("get_cell_at_offset", At.values, "read_values_list")>>
  /\ nodes[lastOp.node].range = <<At.index>>
  /\ ItemOf(lastOp.node).values_list = << <<At.value1, At.value2>> >>
  /\ Len(nodes) = 1

\* C24: a key whose class name and security key can be read and whose
\* values_list_offset lies in no hive bin loads, whatever its
\* number_of_values is, with an empty values list and marked corrupted,
\* and read_values_list makes no call on the store.  Such a key fails to
\* load exactly if values_list_offset lies in a hive bin, number_of_values
\* is above 0 and the offset is 0, or no cell can be retrieved there, or
\* the payload of the cell is less than number_of_values * 4 bytes.
C24_ValuesListOutsideIsSoft ==
  (/\ lastOp.op = "read_node_data"
   /\ KeyOnDisk(lastOp.args[1], lastOp.args[2]) # <<>>
   /\ ClassNameReadable(KeyOnDisk(lastOp.args[1], lastOp.args[2])[1])
   /\ SecurityKeyReadable(KeyOnDisk(lastOp.args[1], lastOp.args[2])[1]))
  => LET named_key == KeyOnDisk(lastOp.args[1], lastOp.args[2])[1]
         offset == named_key.values_list_offset
         number == named_key.number_of_values
     IN  /\ ~InBin(offset)
              => /\ lastOp.result = 1
                 /\ nodes[lastOp.node].value # <<>>
                 /\ ItemOf(lastOp.node).values_list = << <<>> >>
                 /\ IS_CORRUPTED \in ItemOf(lastOp.node).item_flags
                 /\ \A i \in 1 .. Len(lastOp.calls) :
                      lastOp.calls[i].by # "read_values_list"
         /\ lastOp.result = -1
              <=> /\ InBin(offset)
                  /\ number > 0
                  /\ \/ offset = 0
                     \/ ~IsCell(offset)
                     \/ Len(Payload(offset)) \div 4 < number

\* a key with 2^30 values at an offset in no hive bin is loaded
C24_Witness ==
  /\ lastOp.op = "read_node_data"
  /\ lastOp.result = 1
  /\ ItemOf(lastOp.node).named_key[1].values_list_offset = At.outside
  /\ ItemOf(lastOp.node).named_key[1].number_of_values = 1073741824
  /\ ItemOf(lastOp.node).values_list = << <<>> >>
  /\ ItemOf(lastOp.node).item_flags = {IS_CORRUPTED}
  /\ Retrievals(lastOp.calls)
       = <<StoreCall("get_cell_at_offset", At.root, "read_named_key")>>

\* C25: a load on a tree node that has its sub nodes data range leaves the
\* range, the sub nodes and the other nodes as they are and does not look
\* sub_keys_list_offset up: read_named_key looks up the values list offset
\* at most.  Nodes are appended by the sub nodes loader alone, which runs
\* on a node that has a range; a range is set by a load alone, on a node
\* that has none, and is never changed after.
C25_ReloadKeepsRangeAndSubNodes ==
  [][/\ (lastOp'.op = "read_node_data"
          /\ nodes[lastOp'.node].range # <<>>)
         => /\ nodes'[lastOp'.node].range = nodes[lastOp'.node].range
            /\ nodes'[lastOp'.node].sub_nodes_read
                 = nodes[lastOp'.node].sub_nodes_read
            /\ Len(nodes') = Len(nodes)
            /\ \A n \in 1 .. Len(nodes) :
                 n # lastOp'.node => nodes'[n] = nodes[n]
            /\ Len(ProbedByNamedKey(lastOp'.calls)) <= 1
            /\ ProbedByNamedKey(lastOp'.calls) # <<>>
                 => ProbedByNamedKey(lastOp'.calls)
                      = <<KeyOnDisk(lastOp'.args[1], lastOp'.args[2])[1]
                            .values_list_offset>>
     /\ Len(nodes') # Len(nodes)
         => /\ lastOp'.op = "read_sub_nodes"
            /\ nodes[lastOp'.node].range # <<>>
            /\ SubSeq(nodes', 1, Len(nodes))
                 = [nodes EXCEPT ![lastOp'.node] = nodes'[lastOp'.node]]
     /\ lastOp'.op = "read_sub_nodes" => nodes[lastOp'.node].range # <<>>
     /\ \A n \in 1 .. Len(nodes) :
          nodes'[n].range # nodes[n].range
            => /\ lastOp'.op = "read_node_data" /\ lastOp'.node = n
               /\ nodes[n].range = <<>>]_vars

\* a key with two sub keys is loaded again after its sub nodes were read:
\* the values list offset alone is looked up
C25_Witness ==
  /\ lastOp.op = "read_node_data"
  /\ lastOp.result = 1
  /\ lastOp.node_before[1].range = <<At.index>>
  /\ lastOp.node_before[1].sub_nodes_read
  /\ nodes[lastOp.node].range = <<At.index>>
  /\ ItemOf(lastOp.node).named_key[1].number_of_sub_keys = 2
  /\ ProbedByNamedKey(lastOp.calls) = <<At.values>>
  /\ Len(SubNodesOf(lastOp.node)) = 2

\* an ri cell that the walk goes through
RiCell(offset) ==
  /\ ~NoCell(offset)
  /\ ~StructuralFailure(offset)
  /\ IndexIsInterior(offset)

\* the ri cells that the elements of the ri cell at offset lead to
RiElements(offset) ==
  {o \in DOMAIN hive.cells :
     /\ RiCell(o)
     /\ \E i \in DOMAIN IndexElements(offset) :
          IndexElements(offset)[i].offset = o}

\* the ri cells that are reached from the ri cells from in 1 to steps steps
RECURSIVE RiReached(_, _)
RiReached(from, steps) ==
  IF steps = 0 THEN {}
  ELSE LET next == UNION {RiElements(o) : o \in from}
       IN  next \cup RiReached(next, steps - 1)

RiReachedFrom(offset) ==
  RiReached({offset}, Cardinality(DOMAIN hive.cells))

\* an ri cell that is reached from offset, or the one at offset itself,
\* reaches itself
RiCycleFrom(offset) ==
  /\ RiCell(offset)
  /\ \E o \in {offset} \cup RiReachedFrom(offset) : o \in RiReachedFrom(o)

\* the length of the longest chain of ri cells from offset, where there is
\* no cycle
RECURSIVE LongestRiChain(_)
LongestRiChain(offset) ==
  IF ~RiCell(offset) THEN 0
  ELSE LET longest == {LongestRiChain(o) : o \in RiElements(offset)}
       IN  1 + IF longest = {} THEN 0
               ELSE CHOOSE n \in longest : \A m \in longest : m <= n

\* C26: on a hive in which no ri cell that the walk can come to reaches
\* itself, the walk returns 1, 0 or -1, has released every local copy it
\* has allocated, and its calls of itself are nested no deeper than the
\* longest chain of ri cells is long.  The walk has no other bound: where
\* an ri cell reaches itself the walk either fails before it comes there
\* or is still going, with a copy held at every level, however deep it is
\* followed.
C26_WalkEndsUnlessCyclic ==
  lastOp.op = "read_sub_nodes" =>
    /\ ~RiCycleFrom(lastOp.args[1])
         => /\ lastOp.walk \in {1, 0, -1}
            /\ lastOp.trace.released = lastOp.trace.allocated
            /\ lastOp.trace.deepest - 1 <= LongestRiChain(lastOp.args[1])
    /\ RiCycleFrom(lastOp.args[1])
         => lastOp.walk \in {-1, NOT_FOLLOWED}
    /\ lastOp.walk # NOT_FOLLOWED
         => lastOp.trace.released = lastOp.trace.allocated
    /\ lastOp.walk = NOT_FOLLOWED
         => /\ lastOp.trace.deepest = MaxDepth
            /\ lastOp.trace.allocated = lastOp.trace.released + MaxDepth

\* a walk through a chain of three ri cells and a leaf, and then through
\* the last two of them again, has ended, four calls deep, with its six
\* copies released
C26_Witness ==
  /\ lastOp.op = "read_sub_nodes"
  /\ ~RiCycleFrom(lastOp.args[1])
  /\ LongestRiChain(lastOp.args[1]) = 3
  /\ lastOp.walk = 1
  /\ lastOp.trace = [allocated |-> 6, released |-> 6, deepest |-> 4]
  /\ Len(lastOp.added) = 2

\* a walk on an ri cell that is its own element is not at its end
C26_WitnessCycle ==
  /\ lastOp.op = "read_sub_nodes"
  /\ RiCycleFrom(lastOp.args[1])
  /\ lastOp.walk = NOT_FOLLOWED
  /\ lastOp.trace.deepest = MaxDepth

\* C27: a named key with security_key_offset 0 does not load: the security
\* key is not taken to be absent, read_security_key fails without a call
\* on the store, read_named_key goes no further (it looks up neither the
\* sub keys list offset nor the values list offset) and the tree node gets
\* no key item.
C27_SecurityKeyAtZeroFails ==
  (/\ lastOp.op = "read_node_data"
   /\ KeyOnDisk(lastOp.args[1], lastOp.args[2]) # <<>>
   /\ KeyOnDisk(lastOp.args[1], lastOp.args[2])[1].security_key_offset = 0)
  => /\ lastOp.result = -1
     /\ lastOp.freed
     /\ nodes[lastOp.node].value = <<>>
     /\ nodes[lastOp.node] = lastOp.node_before[1]
     /\ \A i \in 1 .. Len(lastOp.calls) :
          /\ lastOp.calls[i].by \in {"read_named_key", "read_class_name"}
          /\ lastOp.calls[i].fn = "get_cell_at_offset"

\* a key without class name, with values and with security_key_offset 0
\* has failed to load after its named key was retrieved
C27_Witness ==
  /\ lastOp.op = "read_node_data"
  /\ lastOp.result = -1
  /\ KeyOnDisk(lastOp.args[1], lastOp.args[2]) # <<>>
  /\ KeyOnDisk(lastOp.args[1], lastOp.args[2])[1].security_key_offset = 0
  /\ KeyOnDisk(lastOp.args[1], lastOp.args[2])[1].class_name_offset = ABSENT
  /\ KeyOnDisk(lastOp.args[1], lastOp.args[2])[1].values_list_offset
       = At.values
  /\ lastOp.calls
       = <<StoreCall("get_cell_at_offset", At.root, "read_named_key")>>
  /\ nodes[lastOp.node].value = <<>>

\* the names of the value types
ValueTypeNames == DOMAIN LIBREGF_VALUE_TYPE

\* C28: after init_type has returned 1 the dictionary of the type object
\* binds the 12 names of the value types, each to the constant of
\* libregf of its name, so to 12 values; if PyDict_New fails the type
\* object has no dictionary, and if a call of PyDict_SetItemString fails
\* init_type returns -1, the dictionary is released and the type object
\* has none.
C28_TypeDictBindsConstants ==
  (lastOp.op = "init_type" /\ lastOp.args[1] # <<>>) =>
    LET failing == lastOp.args[2]
    IN  /\ lastOp.result = 1 <=> failing = {}
        /\ lastOp.result = 1 =>
             /\ type_object[1].tp_dict # <<>>
             /\ DOMAIN type_object[1].tp_dict[1] = ValueTypeNames
             /\ Cardinality(ValueTypeNames) = 12
             /\ \A name \in ValueTypeNames :
                  type_object[1].tp_dict[1][name] = LIBREGF_VALUE_TYPE[name]
             /\ Cardinality({type_object[1].tp_dict[1][name] :
                               name \in ValueTypeNames}) = 12
        /\ lastOp.result = -1 =>
             /\ type_object[1].tp_dict = <<>>
             /\ lastOp.released <=> 0 \notin failing

====
